---- MODULE Spec2Model ----
(***************************************************************************)
(* A model of the async-tftp server: the dispatcher of                     *)
(* src/src/server/server.rs, the read-request engine of                    *)
(* src/src/server/read_req.rs and the write-request engine of              *)
(* src/src/server/write_req.rs.                                            *)
(*                                                                         *)
(* A datagram is modelled in its decoded form.  The payload of a DATA      *)
(* block is the slice (off, len) of the byte source it was read from.      *)
(* Time is abstract: a pending receive may time out at any moment.         *)
(***************************************************************************)
EXTENDS Integers, Sequences, FiniteSets, TLC

VARIABLES
    config,            \* ServerConfig, fixed when the server is built
    reqs_in_progress,  \* TftpServer::reqs_in_progress
    serve_state,       \* "running" until serve returns
    handler_lock,      \* holder of the handler mutex, or NoPeer
    sess,              \* per peer: the spawned task and its engine
    futs,              \* per peer: its req_finished futures in serve's FuturesUnordered
    wire,              \* per peer: datagrams sent to it and datagrams its session accepted
    last_req,          \* what handle_req_packet did with the last datagram
    tracing,           \* whether wire is recorded
    codec,             \* a buffer of bytes and what Packet::from_bytes makes of it
    dir_req,           \* a directory handler and what it made of the last path
    recv_req_futs,     \* the recv_req futures in serve's FuturesUnordered
    ack_call           \* the arguments of a call of recv_ack, an ACK id and the result

vars == <<config, reqs_in_progress, serve_state, handler_lock, sess, futs, wire,
          last_req, tracing, codec, dir_req, recv_req_futs, ack_call>>

----------------------------------------------------------------------------
(* Bounds of the model *)

NumPeers == 2          \* peers that send datagrams to the server
MaxFileLen == 8        \* longest source of a read request served to its end
MaxRetries == 1        \* largest max_send_retries of a configuration
MaxBlocks == 2         \* full blocks a peer sends in one write request
NegFileLen == 9        \* length of the source and of the DATA in SpecNeg
WrapBlocks == 65537    \* full blocks of the source in SpecWrap

(* Program constants *)

None == -1
NoPeer == 0
DEFAULT_BLOCK_SIZE == 512
DEFAULT_WINDOW_SIZE == 1
DEFAULT_TIMEOUT == 3
U16 == 65536

Peers == 1..NumPeers

Min(a, b) == IF a < b THEN a ELSE b

\* An addition that stops at u16::MAX.
saturating_add(a, b) == Min(a + b, U16 - 1)

wrapping_add(a, b) == (a + b) % U16

----------------------------------------------------------------------------
(* Options and negotiation *)

OptsDefault ==
    [block_size |-> None, timeout |-> None, transfer_size |-> None, window_size |-> None]

NoOack == [none |-> TRUE]

\* block_size without the limit of the configuration.
BlockSizeOpt_no_limit(cfg, ropts) ==
    IF ~cfg.ignore_client_block_size THEN ropts.block_size ELSE None

\* server/read_req.rs build_oack_opts
BlockSizeOpt(cfg, ropts) ==
    IF ~cfg.ignore_client_block_size
    THEN IF ropts.block_size # None /\ cfg.block_size_limit # None
         THEN Min(ropts.block_size, cfg.block_size_limit)
         ELSE IF ropts.block_size # None THEN ropts.block_size ELSE None
    ELSE None

\* timeout echoed whatever ignore_client_timeout says.
TimeoutOpt_flag_unread(cfg, ropts) == ropts.timeout

TimeoutOpt(cfg, ropts) ==
    IF ~cfg.ignore_client_timeout THEN ropts.timeout ELSE None

\* transfer_size announced whenever the size is known.
TransferSizeOpt_unrequested(ropts, file_size) == file_size

\* transfer_size announced for a tsize option of any value.
TransferSizeOpt_any_value(ropts, file_size) ==
    IF ropts.transfer_size # None /\ file_size # None THEN file_size ELSE None

TransferSizeOpt(ropts, file_size) ==
    IF ropts.transfer_size = 0 /\ file_size # None THEN file_size ELSE None

WindowSizeOpt(cfg, ropts) ==
    IF ~cfg.ignore_client_window_size
    THEN IF ropts.window_size # None /\ cfg.window_size_limit # None
         THEN Min(ropts.window_size, cfg.window_size_limit)
         ELSE IF ropts.window_size # None THEN ropts.window_size ELSE None
    ELSE None

rrq_build_oack_opts(cfg, ropts, file_size) ==
    LET opts == [block_size    |-> BlockSizeOpt(cfg, ropts),
                 timeout       |-> TimeoutOpt(cfg, ropts),
                 transfer_size |-> TransferSizeOpt(ropts, file_size),
                 window_size   |-> WindowSizeOpt(cfg, ropts)]
    IN  IF opts = OptsDefault THEN NoOack ELSE opts

\* The write side answering tsize the way the read side does: only tsize=0.
wrq_build_oack_opts_tsize_as_rrq(cfg, ropts) ==
    LET opts == [block_size    |-> BlockSizeOpt(cfg, ropts),
                 timeout       |-> TimeoutOpt(cfg, ropts),
                 transfer_size |-> IF ropts.transfer_size = 0 THEN 0 ELSE None,
                 window_size   |-> None]
    IN  IF opts = OptsDefault THEN NoOack ELSE opts

\* server/write_req.rs build_oack_opts
wrq_build_oack_opts(cfg, ropts) ==
    LET opts == [block_size    |-> BlockSizeOpt(cfg, ropts),
                 timeout       |-> TimeoutOpt(cfg, ropts),
                 transfer_size |-> ropts.transfer_size,
                 window_size   |-> None]
    IN  IF opts = OptsDefault THEN NoOack ELSE opts

OackField(oack, f, default) ==
    IF oack = NoOack THEN default
    ELSE IF oack[f] = None THEN default ELSE oack[f]

----------------------------------------------------------------------------
(* Datagrams, in decoded form *)

Pkt(t, id, off, len, opts, err) ==
    [t |-> t, id |-> id, off |-> off, len |-> len, opts |-> opts, err |-> err]

DataPkt(id, off, len) == Pkt("DATA", id, off, len, OptsDefault, "none")
AckPkt(id) == Pkt("ACK", id, 0, 0, OptsDefault, "none")
OAckPkt(opts) == Pkt("OACK", 0, 0, 0, opts, "none")
ErrorPkt(e) == Pkt("ERROR", 0, 0, 0, OptsDefault, e)
ReqPkt(t, opts) == Pkt(t, 0, 0, 0, opts, "none")
InvalidPkt == Pkt("INVALID", 0, 0, 0, OptsDefault, "none")

\* An entry of wire: a datagram sent to the peer by its session or by the
\* dispatcher ("tx"), or a datagram of the peer that its session accepted ("rx").
Tx(by, pkt) == [dir |-> "tx", by |-> by, pkt |-> pkt]
Rx(pkt) == [dir |-> "rx", by |-> "peer", pkt |-> pkt]

Log(p, entries) ==
    IF tracing THEN [wire EXCEPT ![p] = @ \o entries] ELSE wire

\* The positions of w that hold a datagram of type t sent by "by".
Sent(w, by, t) ==
    {i \in 1..Len(w) : w[i].dir = "tx" /\ w[i].by = by /\ w[i].pkt.t = t}

----------------------------------------------------------------------------
(* Sessions *)

IdleSession ==
    [pc |-> "none", kind |-> "none", req |-> OptsDefault,
     file_len |-> 0, file_size |-> None, pos |-> 0,
     block_size |-> 0, timeout |-> 0, window_size |-> 0, max_send_retries |-> 0,
     oack_opts |-> NoOack,
     window |-> <<>>, window_base |-> 0, is_last_block |-> FALSE,
     attempt |-> 0, err |-> "none", result |-> "none",
     block_id |-> 0, ack |-> InvalidPkt, data |-> InvalidPkt, sink |-> <<>>]

\* packet::Error::is_client_error
is_client_error(e) == e = "OptionNegotiationFailed"

NoReq == [peer |-> NoPeer, verdict |-> "none"]

\* No buffer has been decoded.
NoDatagram == [op |-> "none"]

\* DirHandler::new: the served directory is fixed, the mode gives the flags.
DirHandler_new(flags) ==
    [type |-> "DirHandler",
     serve_rrq |-> flags \in {"ReadOnly", "ReadWrite"},
     serve_wrq |-> flags \in {"WriteOnly", "ReadWrite"}]

NoOpen(handler) == [handler |-> handler, op |-> "none"]

\* recv_ack has not been called.
NoAckCall == [op |-> "none"]

\* The task has returned: Ok(peer) or Err((peer, e)).
Finished(s, result, e) == [s EXCEPT !.pc = "done", !.result = result, !.err = e]

\* handle without the exemption: OptionNegotiationFailed is answered like any
\* other error.
RrqFail_answers_every_error(s, e) == [s EXCEPT !.pc = "send_error", !.err = e]

\* ReadRequest::handle / WriteRequest::handle after try_handle returned Err(e):
\* the RRQ engine keeps silent for OptionNegotiationFailed, every other error is
\* sent to the peer once.
RrqFail(s, e) ==
    IF e = "OptionNegotiationFailed"
    THEN Finished(s, "ok", e)
    ELSE [s EXCEPT !.pc = "send_error", !.err = e]

WrqFail(s, e) == [s EXCEPT !.pc = "send_error", !.err = e]

----------------------------------------------------------------------------
(* The read-request engine: server/read_req.rs *)

\* ReadRequest::init: the negotiated options and what the engine derives from them.
ReadRequestInit(s, cfg) ==
    LET oack == rrq_build_oack_opts(cfg, s.req, s.file_size)
    IN  [s EXCEPT !.oack_opts = oack,
                  !.block_size = OackField(oack, "block_size", DEFAULT_BLOCK_SIZE),
                  !.window_size = OackField(oack, "window_size", DEFAULT_WINDOW_SIZE),
                  !.timeout = OackField(oack, "timeout", cfg.timeout),
                  !.max_send_retries = cfg.max_send_retries]

\* The loop head with <= for <: one block more than the window holds.
LoopTop_fills_one_more(s) ==
    IF ~s.is_last_block /\ Len(s.window) <= s.window_size
    THEN [s EXCEPT !.pc = "fill"]
    ELSE [s EXCEPT !.pc = "send", !.attempt = 0]

\* try_handle, top of the loop: fill the window while there is data and room,
\* then send it.
LoopTop(s) ==
    IF ~s.is_last_block /\ Len(s.window) < s.window_size
    THEN [s EXCEPT !.pc = "fill"]
    ELSE [s EXCEPT !.pc = "send", !.attempt = 0]

\* try_handle that reads the first block before every OACK.
TryHandleStart_reads_first(s) ==
    LET t == [s EXCEPT !.window = <<>>, !.window_base = 1, !.is_last_block = FALSE]
    IN  IF t.oack_opts # NoOack
        THEN [t EXCEPT !.pc = "fill_first"]
        ELSE LoopTop(t)

\* try_handle that sends every OACK before it reads.
TryHandleStart_oack_first(s) ==
    LET t == [s EXCEPT !.window = <<>>, !.window_base = 1, !.is_last_block = FALSE]
    IN  IF t.oack_opts # NoOack
        THEN [t EXCEPT !.pc = "send_oack", !.attempt = 0]
        ELSE LoopTop(t)

\* try_handle up to its first suspension point.
TryHandleStart(s) ==
    LET t == [s EXCEPT !.window = <<>>, !.window_base = 1, !.is_last_block = FALSE]
    IN  IF t.oack_opts # NoOack
        THEN IF t.oack_opts.transfer_size = None
             THEN [t EXCEPT !.pc = "fill_first"]
             ELSE [t EXCEPT !.pc = "send_oack", !.attempt = 0]
        ELSE LoopTop(t)

\* fill_data_block that takes the end of the reader for the last block.
fill_data_block_last_at_eof(s, block_id) ==
    LET len == Min(s.block_size, s.file_len - s.pos)
    IN  [buf |-> DataPkt(block_id, s.pos, len), is_last |-> s.pos + len >= s.file_len]

\* fill_data_block with read_block: the block holds the next block_size bytes of
\* the reader, or what is left of it.
fill_data_block(s, block_id) ==
    LET len == Min(s.block_size, s.file_len - s.pos)
    IN  [buf |-> DataPkt(block_id, s.pos, len), is_last |-> len < s.block_size]

\* recv_ack that returns on the ACK of the block before the window too, as an
\* acknowledgement of no block: the window is sent again.
recv_ack_duplicate_resends(window_base, window_len, recved_block_id) ==
    LET n == ((recved_block_id - window_base) % U16) + 1
    IN  IF recved_block_id = wrapping_add(window_base, U16 - 1)
        THEN [accept |-> TRUE, n |-> 0, wrapped |-> FALSE]
        ELSE IF n <= window_len
             THEN [accept |-> TRUE, n |-> n, wrapped |-> FALSE]
             ELSE [accept |-> FALSE, n |-> 0, wrapped |-> FALSE]

\* recv_ack that tests the upper end of the window only.
recv_ack_no_lower_test(window_base, window_len, recved_block_id) ==
    LET window_end == wrapping_add(window_base, window_len)
        n == recved_block_id - window_base + 1
    IN  IF recved_block_id < window_end
        THEN [accept |-> TRUE, n |-> n % U16, wrapped |-> (n < 0 \/ n >= U16)]
        ELSE [accept |-> FALSE, n |-> 0, wrapped |-> FALSE]

\* recv_ack that counts an ACK beyond the wrap from block 0 on only.
recv_ack_wrap_counts_from_zero(window_base, window_len, recved_block_id) ==
    LET window_end == wrapping_add(window_base, window_len)
        Ret(n) == [accept |-> TRUE, n |-> n % U16, wrapped |-> (n < 0 \/ n >= U16)]
        Discard == [accept |-> FALSE, n |-> 0, wrapped |-> FALSE]
    IN  IF window_end > window_base
        THEN IF recved_block_id >= window_base /\ recved_block_id < window_end
             THEN Ret(recved_block_id - window_base + 1)
             ELSE Discard
        ELSE IF recved_block_id >= window_base
             THEN Ret(1 + (recved_block_id - window_base))
             ELSE IF recved_block_id < window_end
                  THEN Ret(1 + recved_block_id)
                  ELSE Discard

\* recv_ack, for a decoded ACK of the session's peer: the number of blocks it
\* acknowledges, or that it is discarded.  "wrapped" tells that the u16
\* arithmetic of the result, or of window_len - window_end, left 0..65535.
recv_ack(window_base, window_len, recved_block_id) ==
    LET window_end == wrapping_add(window_base, window_len)
        Ret(n) == [accept |-> TRUE, n |-> n % U16, wrapped |-> (n < 0 \/ n >= U16)]
        Discard == [accept |-> FALSE, n |-> 0, wrapped |-> FALSE]
    IN  IF window_end > window_base
        THEN IF recved_block_id >= window_base /\ recved_block_id < window_end
             THEN Ret(recved_block_id - window_base + 1)
             ELSE Discard
        ELSE IF recved_block_id >= window_base
             THEN Ret(1 + (recved_block_id - window_base))
             ELSE IF recved_block_id < window_end
                  THEN [Ret(1 + recved_block_id + (window_len - window_end))
                           EXCEPT !.wrapped = @ \/ window_len < window_end]
                  ELSE Discard

\* try_handle after send_window returned Ok(blocks_acked).
AfterAck(s, blocks_acked) ==
    IF blocks_acked > Len(s.window)
    THEN [s EXCEPT !.pc = "panicked"]                \* window.drain(..n) out of range
    ELSE LET t == [s EXCEPT
                     !.window_base = wrapping_add(s.window_base, blocks_acked),
                     !.window = SubSeq(s.window, blocks_acked + 1, Len(s.window))]
         IN  IF t.is_last_block /\ t.window = <<>>
             THEN Finished(t, "ok", "none")
             ELSE LoopTop(t)

Awaiting(s) == s.pc \in {"recv_oack", "recv"}

\* The packets send_window was called with.
SendQueue(s) == IF s.pc = "send_oack" THEN <<OAckPkt(s.oack_opts)>> ELSE s.window

TxAll(by, pkts) == [i \in 1..Len(pkts) |-> Tx(by, pkts[i])]

\* fill_data_block returns Ok.
FillDataBlock(p) ==
    /\ sess[p].pc \in {"fill_first", "fill"}
    /\ LET s == sess[p]
           r == fill_data_block(s, wrapping_add(s.window_base, Len(s.window)))
           t == [s EXCEPT !.window = Append(@, r.buf),
                          !.pos = @ + r.buf.len,
                          !.is_last_block = r.is_last]
       IN  sess' = [sess EXCEPT ![p] =
                       IF s.pc = "fill_first"
                       THEN [t EXCEPT !.pc = "send_oack", !.attempt = 0]
                       ELSE LoopTop(t)]
    /\ UNCHANGED <<config, reqs_in_progress, serve_state, handler_lock, futs, wire, last_req, tracing, codec, dir_req, recv_req_futs, ack_call>>

\* The reader fails.
FillDataBlockFail(p) ==
    /\ sess[p].pc \in {"fill_first", "fill"}
    /\ sess' = [sess EXCEPT ![p] = RrqFail(@, "Io")]
    /\ UNCHANGED <<config, reqs_in_progress, serve_state, handler_lock, futs, wire, last_req, tracing, codec, dir_req, recv_req_futs, ack_call>>

\* send_window, one pass of its loop: every packet of the window is sent.
SendWindow(p) ==
    /\ sess[p].pc \in {"send_oack", "send"}
    /\ wire' = Log(p, TxAll("session", SendQueue(sess[p])))
    /\ sess' = [sess EXCEPT ![p].pc = IF @ = "send_oack" THEN "recv_oack" ELSE "recv"]
    /\ UNCHANGED <<config, reqs_in_progress, serve_state, handler_lock, futs, last_req, tracing, codec, dir_req, recv_req_futs, ack_call>>

\* send_window: send_to fails after k packets of the window were sent.
SendWindowFail(p, k) ==
    /\ sess[p].pc \in {"send_oack", "send"}
    /\ k < Len(SendQueue(sess[p]))
    /\ wire' = Log(p, TxAll("session", SubSeq(SendQueue(sess[p]), 1, k)))
    /\ sess' = [sess EXCEPT ![p] = RrqFail(@, "Io")]
    /\ UNCHANGED <<config, reqs_in_progress, serve_state, handler_lock, futs, last_req, tracing, codec, dir_req, recv_req_futs, ack_call>>

\* recv_ack receives ACK(id) from the session's peer.
RecvAck(p, id) ==
    /\ Awaiting(sess[p])
    /\ LET s == sess[p]
           r == IF s.pc = "recv_oack"
                THEN recv_ack(0, 1, id)
                ELSE recv_ack(s.window_base, Len(s.window), id)
       IN  /\ r.accept
           /\ wire' = Log(p, <<Rx(AckPkt(id))>>)
           /\ \/ /\ sess' = [sess EXCEPT ![p] =
                               IF s.pc = "recv_oack" THEN LoopTop(s) ELSE AfterAck(s, r.n)]
              \/ /\ r.wrapped                        \* overflow checks of a debug build
                 /\ sess' = [sess EXCEPT ![p].pc = "panicked"]
    /\ UNCHANGED <<config, reqs_in_progress, serve_state, handler_lock, futs, last_req, tracing, codec, dir_req, recv_req_futs, ack_call>>

\* recv_ack receives a datagram it ignores: an ACK outside the window, a datagram
\* of another peer, an undecodable one, or a packet that is no ACK and no client
\* error.  The receive loop goes on under the same timer.
RecvIgnored(p, from, d) ==
    /\ Awaiting(sess[p])
    /\ \/ from # p
       \/ d.t \notin {"ACK", "ERROR"}
       \/ d.t = "ERROR" /\ ~is_client_error(d.err)
       \/ d.t = "ACK" /\ LET s == sess[p]
                         IN ~(IF s.pc = "recv_oack"
                              THEN recv_ack(0, 1, d.id)
                              ELSE recv_ack(s.window_base, Len(s.window), d.id)).accept
    /\ UNCHANGED vars

\* recv_ack receives an ERROR of the peer that is_client_error passes on.
RecvClientError(p, e) ==
    /\ Awaiting(sess[p])
    /\ is_client_error(e)
    /\ wire' = Log(p, <<Rx(ErrorPkt(e))>>)
    /\ sess' = [sess EXCEPT ![p] = RrqFail(@, e)]
    /\ UNCHANGED <<config, reqs_in_progress, serve_state, handler_lock, futs, last_req, tracing, codec, dir_req, recv_req_futs, ack_call>>

\* recv_from fails.
RecvIoError(p) ==
    /\ Awaiting(sess[p])
    /\ sess' = [sess EXCEPT ![p] = RrqFail(@, "Io")]
    /\ UNCHANGED <<config, reqs_in_progress, serve_state, handler_lock, futs, wire, last_req, tracing, codec, dir_req, recv_req_futs, ack_call>>

\* Timeout of a send_window that makes one pass more.
Timeout_one_more_pass(p) ==
    /\ Awaiting(sess[p])
    /\ LET s == sess[p]
       IN  sess' = [sess EXCEPT ![p] =
                       IF s.attempt <= s.max_send_retries
                       THEN [s EXCEPT !.attempt = @ + 1,
                                      !.pc = IF s.pc = "recv_oack" THEN "send_oack" ELSE "send"]
                       ELSE RrqFail(s, "MaxSendRetriesReached")]
    /\ UNCHANGED <<config, reqs_in_progress, serve_state, handler_lock, futs, wire, last_req, tracing, codec, dir_req, recv_req_futs, ack_call>>

\* Timeout whose MaxSendRetriesReached is returned by the task instead of being
\* handled by handle.
Timeout_task_returns_err(p) ==
    /\ Awaiting(sess[p])
    /\ LET s == sess[p]
       IN  sess' = [sess EXCEPT ![p] =
                       IF s.attempt < s.max_send_retries
                       THEN [s EXCEPT !.attempt = @ + 1,
                                      !.pc = IF s.pc = "recv_oack" THEN "send_oack" ELSE "send"]
                       ELSE Finished(s, "err", "MaxSendRetriesReached")]
    /\ UNCHANGED <<config, reqs_in_progress, serve_state, handler_lock, futs, wire, last_req, tracing, codec, dir_req, recv_req_futs, ack_call>>

\* A retry that builds the packets of the window anew from the reader instead of
\* sending the stored ones.
Timeout_reads_again(p) ==
    /\ Awaiting(sess[p])
    /\ LET s == sess[p]
       IN  sess' = [sess EXCEPT ![p] =
                       IF s.attempt < s.max_send_retries
                       THEN [s EXCEPT !.attempt = @ + 1,
                                      !.window = [i \in 1..Len(s.window) |->
                                                     [s.window[i] EXCEPT !.off = s.pos]],
                                      !.pc = IF s.pc = "recv_oack" THEN "send_oack" ELSE "send"]
                       ELSE RrqFail(s, "MaxSendRetriesReached")]
    /\ UNCHANGED <<config, reqs_in_progress, serve_state, handler_lock, futs, wire, last_req, tracing, codec, dir_req, recv_req_futs, ack_call>>

\* io_timeout expires: the next pass of send_window's loop, or
\* MaxSendRetriesReached after the last one.
Timeout(p) ==
    /\ Awaiting(sess[p])
    /\ LET s == sess[p]
       IN  sess' = [sess EXCEPT ![p] =
                       IF s.attempt < s.max_send_retries
                       THEN [s EXCEPT !.attempt = @ + 1,
                                      !.pc = IF s.pc = "recv_oack" THEN "send_oack" ELSE "send"]
                       ELSE RrqFail(s, "MaxSendRetriesReached")]
    /\ UNCHANGED <<config, reqs_in_progress, serve_state, handler_lock, futs, wire, last_req, tracing, codec, dir_req, recv_req_futs, ack_call>>

\* handle that returns the failure of the ERROR's send_to to the task.
SendError_failure_reported(p, sent) ==
    /\ sess[p].pc = "send_error"
    /\ wire' = IF sent THEN Log(p, <<Tx("session", ErrorPkt(sess[p].err))>>) ELSE wire
    /\ sess' = [sess EXCEPT ![p] = IF sent THEN Finished(@, "ok", @.err)
                                           ELSE Finished(@, "err", "Io")]
    /\ UNCHANGED <<config, reqs_in_progress, serve_state, handler_lock, futs, last_req, tracing, codec, dir_req, recv_req_futs, ack_call>>

\* handle: the ERROR packet is sent once; the outcome of send_to is ignored.
SendError(p, sent) ==
    /\ sess[p].pc = "send_error"
    /\ wire' = IF sent THEN Log(p, <<Tx("session", ErrorPkt(sess[p].err))>>) ELSE wire
    /\ sess' = [sess EXCEPT ![p] = Finished(@, "ok", @.err)]
    /\ UNCHANGED <<config, reqs_in_progress, serve_state, handler_lock, futs, last_req, tracing, codec, dir_req, recv_req_futs, ack_call>>

----------------------------------------------------------------------------
(* The write-request engine: server/write_req.rs *)

\* WriteRequest::init, and try_handle up to its first send.
WriteRequestInit(s, cfg) ==
    LET oack == wrq_build_oack_opts(cfg, s.req)
    IN  [s EXCEPT !.oack_opts = oack,
                  !.block_size = OackField(oack, "block_size", DEFAULT_BLOCK_SIZE),
                  !.timeout = OackField(oack, "timeout", cfg.timeout),
                  !.max_send_retries = cfg.max_send_retries,
                  !.block_id = 0,
                  !.ack = IF oack # NoOack THEN OAckPkt(oack) ELSE AckPkt(0),
                  !.pc = "w_send_first"]

\* try_handle: the next block is awaited.
WrqNextBlock(s) ==
    [s EXCEPT !.block_id = wrapping_add(@, 1), !.attempt = 0, !.pc = "w_recv"]

\* try_handle sends the first ACK or OACK.
WrqSendFirst(p, sent) ==
    /\ sess[p].pc = "w_send_first"
    /\ wire' = IF sent THEN Log(p, <<Tx("session", sess[p].ack)>>) ELSE wire
    /\ sess' = [sess EXCEPT ![p] = IF sent THEN WrqNextBlock(@) ELSE WrqFail(@, "Io")]
    /\ UNCHANGED <<config, reqs_in_progress, serve_state, handler_lock, futs, last_req, tracing, codec, dir_req, recv_req_futs, ack_call>>

\* recv_data_block receives the expected DATA from the peer, and recv_data
\* acknowledges it.  The receive buffer holds block_size bytes of payload:
\* recv_from drops what a longer datagram has beyond them, or fails
\* (WrqRecvIoError) where the platform reports such a datagram as an error.
WrqRecvData(p, d, sent) ==
    /\ sess[p].pc = "w_recv"
    /\ d.t = "DATA" /\ d.id = sess[p].block_id
    /\ LET s == sess[p]
           data == DataPkt(d.id, d.off, Min(d.len, s.block_size))
           ack == AckPkt(s.block_id)
       IN  /\ wire' = Log(p, <<Rx(d)>> \o (IF sent THEN <<Tx("session", ack)>> ELSE <<>>))
           /\ sess' = [sess EXCEPT ![p] =
                          IF sent
                          THEN [s EXCEPT !.ack = ack, !.data = data, !.pc = "w_write"]
                          ELSE WrqFail([s EXCEPT !.ack = ack], "Io")]
    /\ UNCHANGED <<config, reqs_in_progress, serve_state, handler_lock, futs, last_req, tracing, codec, dir_req, recv_req_futs, ack_call>>

\* recv_data_block receives a datagram it ignores.
WrqRecvIgnored(p, from, d) ==
    /\ sess[p].pc = "w_recv"
    /\ from # p \/ ~(d.t = "DATA" /\ d.id = sess[p].block_id)
    /\ UNCHANGED vars

\* recv_from fails.
WrqRecvIoError(p) ==
    /\ sess[p].pc = "w_recv"
    /\ sess' = [sess EXCEPT ![p] = WrqFail(@, "Io")]
    /\ UNCHANGED <<config, reqs_in_progress, serve_state, handler_lock, futs, wire, last_req, tracing, codec, dir_req, recv_req_futs, ack_call>>

\* recv_data whose loop makes one pass more before MaxSendRetriesReached.
WrqTimeout_one_more_pass(p, sent) ==
    /\ sess[p].pc = "w_recv"
    /\ LET s == sess[p]
       IN  /\ wire' = IF sent THEN Log(p, <<Tx("session", s.ack)>>) ELSE wire
           /\ sess' = [sess EXCEPT ![p] =
                          IF ~sent THEN WrqFail(s, "Io")
                          ELSE IF s.attempt <= s.max_send_retries
                               THEN [s EXCEPT !.attempt = @ + 1]
                               ELSE WrqFail(s, "MaxSendRetriesReached")]
    /\ UNCHANGED <<config, reqs_in_progress, serve_state, handler_lock, futs, last_req, tracing, codec, dir_req, recv_req_futs, ack_call>>

\* io_timeout expires: recv_data sends the previous ACK again, then goes to the
\* next pass of its loop, or fails with MaxSendRetriesReached after the last one.
WrqTimeout(p, sent) ==
    /\ sess[p].pc = "w_recv"
    /\ LET s == sess[p]
       IN  /\ wire' = IF sent THEN Log(p, <<Tx("session", s.ack)>>) ELSE wire
           /\ sess' = [sess EXCEPT ![p] =
                          IF ~sent THEN WrqFail(s, "Io")
                          ELSE IF s.attempt < s.max_send_retries
                               THEN [s EXCEPT !.attempt = @ + 1]
                               ELSE WrqFail(s, "MaxSendRetriesReached")]
    /\ UNCHANGED <<config, reqs_in_progress, serve_state, handler_lock, futs, last_req, tracing, codec, dir_req, recv_req_futs, ack_call>>

\* try_handle with <= for <: a full block ends the transfer too.
WrqWrite_full_block_ends(p, written) ==
    /\ sess[p].pc = "w_write"
    /\ LET s == sess[p]
           t == [s EXCEPT !.sink = Append(@, s.data)]
       IN  sess' = [sess EXCEPT ![p] =
                       IF ~written THEN WrqFail(s, "Io")
                       ELSE IF s.data.len <= s.block_size
                            THEN Finished(t, "ok", "none")
                            ELSE WrqNextBlock(t)]
    /\ UNCHANGED <<config, reqs_in_progress, serve_state, handler_lock, futs, wire, last_req, tracing, codec, dir_req, recv_req_futs, ack_call>>

\* try_handle writes the payload; a payload shorter than block_size ends the
\* transfer.
WrqWrite(p, written) ==
    /\ sess[p].pc = "w_write"
    /\ LET s == sess[p]
           t == [s EXCEPT !.sink = Append(@, s.data)]
       IN  sess' = [sess EXCEPT ![p] =
                       IF ~written THEN WrqFail(s, "Io")
                       ELSE IF s.data.len < s.block_size
                            THEN Finished(t, "ok", "none")
                            ELSE WrqNextBlock(t)]
    /\ UNCHANGED <<config, reqs_in_progress, serve_state, handler_lock, futs, wire, last_req, tracing, codec, dir_req, recv_req_futs, ack_call>>

----------------------------------------------------------------------------
(* The dispatcher: server/server.rs *)

\* handle_req_packet without the test of reqs_in_progress.insert.
handle_req_packet_no_insert_test(p, d) ==
    IF d.t \notin {"RRQ", "WRQ"}
    THEN [spawn |-> FALSE, verdict |-> "stray"]
    ELSE [spawn |-> TRUE, verdict |-> "spawned"]

\* handle_req_packet without the match on the packet's variant: every datagram
\* counts as a request.
handle_req_packet_no_variant_test(p, d) ==
    IF p \in reqs_in_progress
    THEN [spawn |-> FALSE, verdict |-> "busy"]
    ELSE [spawn |-> TRUE, verdict |-> "spawned"]

\* handle_req_packet with handle_rrq / handle_wrq: a request of a peer that has
\* no request in progress spawns a task; everything else is ignored.
handle_req_packet(p, d) ==
    IF d.t \notin {"RRQ", "WRQ"}
    THEN [spawn |-> FALSE, verdict |-> "stray"]
    ELSE IF p \in reqs_in_progress
         THEN [spawn |-> FALSE, verdict |-> "busy"]
         ELSE [spawn |-> TRUE, verdict |-> "spawned"]

\* serve that awaits another request only after it has spawned a task.
RecvReq_rearms_on_spawn(p, d) ==
    /\ serve_state = "running"
    /\ LET r == handle_req_packet(p, d)
       IN  /\ last_req' = [peer |-> p, verdict |-> r.verdict]
           /\ IF r.spawn
              THEN /\ reqs_in_progress' = reqs_in_progress \cup {p}
                   /\ futs' = [futs EXCEPT ![p] = @ + 1]
                   /\ sess' = [sess EXCEPT ![p] =
                                  [IdleSession EXCEPT !.pc = "spawned",
                                                      !.kind = d.t,
                                                      !.req = d.opts]]
                   /\ wire' = [wire EXCEPT ![p] = <<>>]
              ELSE UNCHANGED <<reqs_in_progress, futs, sess, wire>>
    /\ recv_req_futs' = (recv_req_futs - 1)
                          + (IF handle_req_packet(p, d).spawn THEN 1 ELSE 0)
    /\ UNCHANGED <<config, serve_state, handler_lock, tracing, codec, dir_req, ack_call>>

\* serve, FutResults::RecvReq(Ok(..)): a datagram of peer p is received; the
\* future of a spawned task joins the awaited ones.
RecvReq(p, d) ==
    /\ serve_state = "running"
    /\ LET r == handle_req_packet(p, d)
       IN  /\ last_req' = [peer |-> p, verdict |-> r.verdict]
           /\ IF r.spawn
              THEN /\ reqs_in_progress' = reqs_in_progress \cup {p}
                   /\ futs' = [futs EXCEPT ![p] = @ + 1]
                   /\ sess' = [sess EXCEPT ![p] =
                                  [IdleSession EXCEPT !.pc = "spawned",
                                                      !.kind = d.t,
                                                      !.req = d.opts]]
                   /\ wire' = [wire EXCEPT ![p] = <<>>]
              ELSE UNCHANGED <<reqs_in_progress, futs, sess, wire>>
    /\ recv_req_futs' = (recv_req_futs - 1) + 1      \* the next recv_req is pushed
    /\ UNCHANGED <<config, serve_state, handler_lock, tracing, codec, dir_req, ack_call>>

\* serve, FutResults::RecvReq(Err(..)): serve returns the error; the tasks it
\* holds are dropped.
RecvReqFail ==
    /\ serve_state = "running"
    /\ serve_state' = "stopped"
    /\ sess' = [p \in Peers |-> IdleSession]
    /\ futs' = [p \in Peers |-> 0]
    /\ handler_lock' = NoPeer
    /\ recv_req_futs' = 0
    /\ UNCHANGED <<config, reqs_in_progress, wire, last_req, tracing, codec, dir_req, ack_call>>

\* The open called without the mutex.
LockHandler_without_mutex(p) ==
    /\ sess[p].pc = "spawned"
    /\ handler_lock' = p
    /\ sess' = [sess EXCEPT ![p].pc = "open"]
    /\ UNCHANGED <<config, reqs_in_progress, serve_state, futs, wire, last_req, tracing, codec, dir_req, recv_req_futs, ack_call>>

\* The task takes the handler mutex.
LockHandler(p) ==
    /\ sess[p].pc = "spawned"
    /\ handler_lock = NoPeer
    /\ handler_lock' = p
    /\ sess' = [sess EXCEPT ![p].pc = "open"]
    /\ UNCHANGED <<config, reqs_in_progress, serve_state, futs, wire, last_req, tracing, codec, dir_req, recv_req_futs, ack_call>>

\* handle_rrq: read_req_open returns a reader of len bytes, the mutex is
\* released, ReadRequest::init binds the socket and handle starts.
OpenRead(p, len, size_known, bound) ==
    /\ sess[p].pc = "open" /\ sess[p].kind = "RRQ"
    /\ handler_lock' = NoPeer
    /\ LET s == [sess[p] EXCEPT !.file_len = len,
                                !.file_size = IF size_known THEN len ELSE None]
       IN  sess' = [sess EXCEPT ![p] =
                       IF bound
                       THEN TryHandleStart(ReadRequestInit(s, config))
                       ELSE Finished(s, "err", "Bind")]
    /\ UNCHANGED <<config, reqs_in_progress, serve_state, futs, wire, last_req, tracing, codec, dir_req, recv_req_futs, ack_call>>

\* handle_wrq: write_req_open returns a writer, the mutex is released,
\* WriteRequest::init binds the socket and handle starts.
OpenWrite(p, bound) ==
    /\ sess[p].pc = "open" /\ sess[p].kind = "WRQ"
    /\ handler_lock' = NoPeer
    /\ sess' = [sess EXCEPT ![p] =
                   IF bound
                   THEN WriteRequestInit(@, config)
                   ELSE Finished(@, "err", "Bind")]
    /\ UNCHANGED <<config, reqs_in_progress, serve_state, futs, wire, last_req, tracing, codec, dir_req, recv_req_futs, ack_call>>

\* The failed open handed to the engine's error path: the session reports it.
OpenFail_session_reports(p, e) ==
    /\ sess[p].pc = "open"
    /\ handler_lock' = NoPeer
    /\ sess' = [sess EXCEPT ![p] = [@ EXCEPT !.pc = "send_error", !.err = e]]
    /\ UNCHANGED <<config, reqs_in_progress, serve_state, futs, wire, last_req, tracing, codec, dir_req, recv_req_futs, ack_call>>

\* read_req_open / write_req_open returns an error: the task returns it.
OpenFail(p, e) ==
    /\ sess[p].pc = "open"
    /\ handler_lock' = NoPeer
    /\ sess' = [sess EXCEPT ![p] = Finished(@, "err", e)]
    /\ UNCHANGED <<config, reqs_in_progress, serve_state, futs, wire, last_req, tracing, codec, dir_req, recv_req_futs, ack_call>>

\* The task's future has been taken from futs: what remains known of the task is
\* its result.
Reaped(s) == [IdleSession EXCEPT !.result = s.result, !.err = s.err]

\* serve, FutResults::ReqFinished(Ok(peer)).
ReqFinishedOk(p) ==
    /\ serve_state = "running"
    /\ sess[p].pc = "done" /\ sess[p].result = "ok"
    /\ reqs_in_progress' = reqs_in_progress \ {p}
    /\ futs' = [futs EXCEPT ![p] = @ - 1]
    /\ sess' = [sess EXCEPT ![p] = Reaped(@)]
    /\ UNCHANGED <<config, serve_state, handler_lock, wire, last_req, tracing, codec, dir_req, recv_req_futs, ack_call>>

\* The protocol error kinds of an ERROR packet.
ProtocolErrors ==
    {"Undefined", "FileNotFound", "PermissionDenied", "DiskFull", "IllegalOperation",
     "UnknownTransferId", "FileAlreadyExists", "NoSuchUser", "OptionNegotiationFailed"}

\* send_error, error.into(): the packet::Error of an Error. Error::Packet(e) is e;
\* an error that is no protocol error goes out as Undefined.
error_into(e) == IF e \in ProtocolErrors THEN e ELSE "Undefined"

\* ReqFinished(Err(..)) that returns from the arm when send_error fails.
ReqFinishedErr_remove_if_sent(p, sent) ==
    /\ serve_state = "running"
    /\ sess[p].pc = "done" /\ sess[p].result = "err"
    /\ wire' = IF sent THEN Log(p, <<Tx("dispatcher", ErrorPkt(error_into(sess[p].err)))>>) ELSE wire
    /\ reqs_in_progress' = IF sent THEN reqs_in_progress \ {p} ELSE reqs_in_progress
    /\ futs' = [futs EXCEPT ![p] = @ - 1]
    /\ sess' = [sess EXCEPT ![p] = Reaped(@)]
    /\ UNCHANGED <<config, serve_state, handler_lock, last_req, tracing, codec, dir_req, recv_req_futs, ack_call>>

\* ReqFinished(Err(..)) with `?` on send_error: serve returns when the ERROR
\* cannot be sent.
ReqFinishedErr_send_error_fatal(p, sent) ==
    /\ serve_state = "running"
    /\ sess[p].pc = "done" /\ sess[p].result = "err"
    /\ wire' = IF sent THEN Log(p, <<Tx("dispatcher", ErrorPkt(error_into(sess[p].err)))>>) ELSE wire
    /\ reqs_in_progress' = IF sent THEN reqs_in_progress \ {p} ELSE reqs_in_progress
    /\ futs' = [futs EXCEPT ![p] = @ - 1]
    /\ sess' = [sess EXCEPT ![p] = Reaped(@)]
    /\ serve_state' = IF sent THEN serve_state ELSE "stopped"
    /\ UNCHANGED <<config, handler_lock, last_req, tracing, codec, dir_req, recv_req_futs, ack_call>>

\* serve, FutResults::ReqFinished(Err((peer, e))): send_error sends the error from
\* a fresh socket; whether it succeeded is ignored.
ReqFinishedErr(p, sent) ==
    /\ serve_state = "running"
    /\ sess[p].pc = "done" /\ sess[p].result = "err"
    /\ wire' = IF sent THEN Log(p, <<Tx("dispatcher", ErrorPkt(error_into(sess[p].err)))>>) ELSE wire
    /\ reqs_in_progress' = reqs_in_progress \ {p}
    /\ futs' = [futs EXCEPT ![p] = @ - 1]
    /\ sess' = [sess EXCEPT ![p] = Reaped(@)]
    /\ UNCHANGED <<config, serve_state, handler_lock, last_req, tracing, codec, dir_req, recv_req_futs, ack_call>>

----------------------------------------------------------------------------
(* The environment: configurations, requests, readers and datagrams *)

OptionOf(S) == {None} \cup S

AllConfigs ==
    [timeout : {DEFAULT_TIMEOUT},
     block_size_limit : OptionOf({3}),
     max_send_retries : 0..MaxRetries,
     ignore_client_timeout : BOOLEAN,
     ignore_client_block_size : BOOLEAN,
     window_size_limit : OptionOf({0, 2}),
     ignore_client_window_size : BOOLEAN]

\* TftpServerBuilder::with_handler, with the retry cap within the bound.
BuilderConfigs ==
    {c \in AllConfigs :
        /\ c.block_size_limit = None
        /\ c.window_size_limit = None
        /\ ~c.ignore_client_timeout
        /\ ~c.ignore_client_block_size
        /\ ~c.ignore_client_window_size}

AllReqOpts ==
    [block_size : OptionOf({8}),
     timeout : OptionOf({1}),
     transfer_size : OptionOf({0, 5}),
     window_size : OptionOf({1, 3})]

PlainReqOpts == {OptsDefault}

Reqs(kinds, opts) == {ReqPkt(t, o) : t \in kinds, o \in opts}

HandlerErrors == {"FileNotFound"}
PeerErrors == {"OptionNegotiationFailed", "FileNotFound"}

\* Datagrams that are no request.
StrayPkts == {InvalidPkt, AckPkt(0), DataPkt(1, 0, 0), ErrorPkt("FileNotFound"),
              OAckPkt(OptsDefault)}

\* The ids of the ACKs a peer sends to an RRQ session: 0, every id of the window,
\* the id before it and the id after it.
AckIds(s) ==
    {0} \cup {wrapping_add(s.window_base, k) : k \in (0 - 1)..Len(s.window)}

\* Other datagrams a peer sends to a session.
SessionPkts == {InvalidPkt, OAckPkt(OptsDefault), ErrorPkt("FileNotFound")}

RECURSIVE SeqBytes(_)
\* The number of bytes in a sequence of DATA payloads.
SeqBytes(q) == IF q = <<>> THEN 0 ELSE Head(q).len + SeqBytes(Tail(q))

\* The DATA packets a peer sends to a WRQ session: the expected block, cut from
\* the peer's file where the blocks written so far end, and the block before it
\* once more; a block is empty, full or a byte longer than the block size.  At
\* most MaxBlocks full blocks are sent in one transfer.
PeerData(s) ==
    LET lens == IF Len(s.sink) < MaxBlocks
                THEN {0, s.block_size, s.block_size + 1}
                ELSE {0}
    IN  {DataPkt(s.block_id, SeqBytes(s.sink), len) : len \in lens}
        \cup (IF s.sink = <<>> THEN {DataPkt(wrapping_add(s.block_id, U16 - 1), 0, 0)}
              ELSE {s.sink[Len(s.sink)]})

----------------------------------------------------------------------------
(* The server with its sessions *)

InitWith(configs) ==
    /\ config \in configs
    /\ reqs_in_progress = {}
    /\ serve_state = "running"
    /\ handler_lock = NoPeer
    /\ sess = [p \in Peers |-> IdleSession]
    /\ futs = [p \in Peers |-> 0]
    /\ wire = [p \in Peers |-> <<>>]
    /\ last_req = NoReq
    /\ codec = NoDatagram
    /\ dir_req = NoOpen(DirHandler_new("ReadWrite"))
    /\ recv_req_futs = 1
    /\ ack_call = NoAckCall

Init == InitWith(BuilderConfigs) /\ tracing = TRUE

\* Two peers, requests without options, empty files of unknown size,
\* a peer that sends its last block first.
Next ==
    \/ \E p \in Peers :
          \/ \E d \in Reqs({"RRQ", "WRQ"}, PlainReqOpts) \cup StrayPkts : RecvReq(p, d)
          \/ ReqFinishedOk(p)
          \/ \E sent \in BOOLEAN : ReqFinishedErr(p, sent)
          \/ LockHandler(p)
          \/ \E bound \in BOOLEAN : OpenRead(p, 0, FALSE, bound)
          \/ \E bound \in BOOLEAN : OpenWrite(p, bound)
          \/ \E e \in HandlerErrors : OpenFail(p, e)
          \/ FillDataBlock(p)
          \/ FillDataBlockFail(p)
          \/ SendWindow(p)
          \/ \E id \in AckIds(sess[p]) : RecvAck(p, id)
          \/ \E from \in Peers : RecvIgnored(p, from, AckPkt(0))
          \/ RecvClientError(p, "OptionNegotiationFailed")
          \/ Timeout(p)
          \/ \E sent \in BOOLEAN : SendError(p, sent)
          \/ WrqSendFirst(p, TRUE)
          \/ WrqRecvData(p, DataPkt(sess[p].block_id, 0, 0), TRUE)
          \/ \E from \in Peers : WrqRecvIgnored(p, from, AckPkt(0))
          \/ WrqTimeout(p, TRUE)
          \/ \E written \in BOOLEAN : WrqWrite(p, written)
    \/ RecvReqFail

Spec == Init /\ [][Next]_vars

\* What a session's task does on its own, and what serve does with a finished one.
SessionStep(p) ==
    \/ \E bound \in BOOLEAN : OpenRead(p, 0, FALSE, bound)
    \/ \E bound \in BOOLEAN : OpenWrite(p, bound)
    \/ \E e \in HandlerErrors : OpenFail(p, e)
    \/ FillDataBlock(p)
    \/ FillDataBlockFail(p)
    \/ SendWindow(p)
    \/ \E id \in AckIds(sess[p]) : RecvAck(p, id)
    \/ RecvClientError(p, "OptionNegotiationFailed")
    \/ Timeout(p)
    \/ \E sent \in BOOLEAN : SendError(p, sent)
    \/ WrqSendFirst(p, TRUE)
    \/ WrqRecvData(p, DataPkt(sess[p].block_id, 0, 0), TRUE)
    \/ WrqTimeout(p, TRUE)
    \/ \E written \in BOOLEAN : WrqWrite(p, written)

ReqFinished(p) == ReqFinishedOk(p) \/ \E sent \in BOOLEAN : ReqFinishedErr(p, sent)

\* The executor runs every task that can run, every await of a session is
\* bounded by its timer or completes, the handler mutex is handed to every
\* task that waits for it, and serve polls the futures of finished tasks.
FairSpec ==
    /\ Init
    /\ [][Next]_vars
    /\ \A p \in Peers : /\ WF_vars(SessionStep(p))
                        /\ SF_vars(LockHandler(p))
                        /\ WF_vars(ReqFinished(p))

----------------------------------------------------------------------------
(* The dispatcher's claims *)

\* C1: at any instant at most one session exists for a peer: serve never holds
\* two futures of tasks of the same peer, and a task that runs is the one its
\* peer is in progress for.
C1_OneSessionPerPeer ==
    \A p \in Peers :
        /\ futs[p] <= 1
        /\ sess[p].pc # "none" => futs[p] = 1 /\ p \in reqs_in_progress

\* A second request of a peer arrived while its session was running.
C1_Witness ==
    \E p \in Peers :
        /\ last_req = [peer |-> p, verdict |-> "busy"]
        /\ futs[p] = 1
        /\ sess[p].pc \in {"send", "recv", "w_recv"}

\* C7: a request of a peer that is in progress changes nothing: no task is
\* spawned, no datagram is sent, the set in progress and the running session
\* stay as they are.
C7_DuplicateRequestDropped ==
    [][\A p \in Peers :
          (/\ p \in reqs_in_progress
           /\ \E d \in Reqs({"RRQ", "WRQ"}, PlainReqOpts) : RecvReq(p, d))
          => /\ last_req' = [peer |-> p, verdict |-> "busy"]
             /\ UNCHANGED <<reqs_in_progress, futs, sess, wire, handler_lock,
                            serve_state>>]_vars

\* The last datagram serve received was a request of a peer whose session had
\* already sent and was waiting for its peer.
C7_Witness ==
    \E p \in Peers :
        /\ last_req = [peer |-> p, verdict |-> "busy"]
        /\ p \in reqs_in_progress
        /\ sess[p].pc \in {"recv", "w_recv"}
        /\ wire[p] # <<>>

\* C8: a peer in progress is removed once its task has completed, with Ok or
\* with Err and whether or not the ERROR of serve was sent, unless serve itself
\* returned; serve taking the future of a task removes its peer; and a request
\* of a peer that is not in progress is accepted.
C8_PeerRemovedWhenTaskCompletes ==
    /\ \A p \in Peers :
          (p \in reqs_in_progress)
              ~> (p \notin reqs_in_progress \/ serve_state = "stopped")
    /\ [][\A p \in Peers :
            /\ (futs[p] = 1 /\ futs'[p] = 0 /\ serve_state' = "running")
                  => p \notin reqs_in_progress'
            /\ (/\ p \notin reqs_in_progress
                /\ \E d \in Reqs({"RRQ", "WRQ"}, PlainReqOpts) : RecvReq(p, d))
                  => (p \in reqs_in_progress' /\ sess'[p].pc = "spawned")]_vars

\* A task returned Err, the ERROR of serve was not sent, and the peer is no
\* longer in progress.
C8_Witness ==
    \E p \in Peers :
        /\ sess[p].pc = "none" /\ sess[p].result = "err"
        /\ wire[p] = <<>>
        /\ p \notin reqs_in_progress
        /\ serve_state = "running"

----------------------------------------------------------------------------
(* One read request, served to its end *)

FirstPeer == CHOOSE p \in Peers : \A q \in Peers : p <= q

\* Configurations with a limit on the block size or on the window size.
RrqConfigs ==
    {c \in AllConfigs :
        /\ ~c.ignore_client_timeout
        /\ ~c.ignore_client_block_size
        /\ ~c.ignore_client_window_size
        /\ c.window_size_limit \in {None, 2}}

\* Read requests with and without blksize, tsize=0 and windowsize.
RrqReqOpts ==
    {o \in AllReqOpts :
        /\ o.timeout = None
        /\ o.transfer_size \in {None, 0}
        /\ o.window_size \in {None, 3}}

InitRrq == InitWith(RrqConfigs) /\ tracing = TRUE

\* One peer reads a file of up to MaxFileLen bytes; it acknowledges, keeps
\* silent, or gives up, and the reader may fail.
NextRrq ==
    \/ /\ FirstPeer \notin reqs_in_progress
       /\ \E d \in Reqs({"RRQ"}, RrqReqOpts) : RecvReq(FirstPeer, d)
    \/ LockHandler(FirstPeer)
    \/ \E len \in 0..MaxFileLen : OpenRead(FirstPeer, len, TRUE, TRUE)
    \/ FillDataBlock(FirstPeer)
    \/ FillDataBlockFail(FirstPeer)
    \/ SendWindow(FirstPeer)
    \/ \E id \in AckIds(sess[FirstPeer]) : RecvAck(FirstPeer, id)
    \/ \E d \in SessionPkts : RecvIgnored(FirstPeer, FirstPeer, d)
    \/ RecvClientError(FirstPeer, "OptionNegotiationFailed")
    \/ Timeout(FirstPeer)
    \/ SendError(FirstPeer, TRUE)
    \/ ReqFinishedOk(FirstPeer)

SpecRrq == InitRrq /\ [][NextRrq]_vars

\* The DATA blocks of w, each named by its offset in the source.
Blocks(w) == {w[i].pkt : i \in Sent(w, "session", "DATA")}

\* How often the datagram pkt was sent in w.
Transmissions(w, pkt) == Cardinality({i \in 1..Len(w) : w[i].dir = "tx" /\ w[i].pkt = pkt})

\* The DATA blocks of w that no later ACK of the peer covers.
Unacked(w) ==
    {w[i].pkt : i \in {k \in Sent(w, "session", "DATA") :
                          ~\E j \in (k + 1)..Len(w) :
                              /\ w[j].dir = "rx" /\ w[j].pkt.t = "ACK"
                              /\ w[j].pkt.id >= w[k].pkt.id}}

\* The session of peer p has been set up by ReadRequest::init.
RrqRunning(p) == sess[p].kind = "RRQ" /\ sess[p].pc \notin {"none", "spawned", "open"}

\* C2 (as the code has it): at most window_size DATA blocks are unacknowledged
\* at any time, window_size being the negotiated windowsize and 1 without one;
\* with a window of 1, DATA(n+1) is sent only after ACK(n) has been received.
C2_AtMostWindowSizeUnacked ==
    \A p \in Peers :
        RrqRunning(p) =>
            LET s == sess[p]
                w == wire[p]
            IN  /\ Cardinality(Unacked(w)) <= s.window_size
                /\ s.window_size = 1 =>
                      \A i \in Sent(w, "session", "DATA") :
                          w[i].pkt.id > 1 =>
                              \E j \in 1..(i - 1) :
                                  w[j] = Rx(AckPkt(w[i].pkt.id - 1))

\* With a negotiated window of 2, two blocks are unacknowledged after an
\* earlier block was acknowledged.
C2_Witness ==
    \E p \in Peers :
        /\ RrqRunning(p)
        /\ sess[p].window_size = 2
        /\ sess[p].pc = "recv"
        /\ Cardinality(Unacked(wire[p])) = 2
        /\ \E j \in 1..Len(wire[p]) : wire[p][j] = Rx(AckPkt(1))

\* C2 (as the specification has it): at most one DATA block is unacknowledged
\* at any time, DATA(n+1) is never sent before ACK(n) has been received.
C2_StopAndWait ==
    \A p \in Peers :
        RrqRunning(p) =>
            LET w == wire[p]
            IN  /\ Cardinality(Unacked(w)) <= 1
                /\ \A i \in Sent(w, "session", "DATA") :
                      w[i].pkt.id > 1 =>
                          \E j \in 1..(i - 1) : w[j] = Rx(AckPkt(w[i].pkt.id - 1))

C6_BlocksCoverSource ==
    \A p \in Peers :
        RrqRunning(p) =>
            LET s == sess[p]
                w == wire[p]
                B == s.block_size
                L == s.file_len
                n == Cardinality(Blocks(w))
            IN  /\ {b.id : b \in Blocks(w)} = 1..n
                /\ \A b \in Blocks(w) :
                      /\ b.off = (b.id - 1) * B
                      /\ b.len = Min(B, L - b.off)
                /\ (s.pc = "done" /\ s.err = "none") =>
                      /\ n = (L \div B) + 1
                      /\ \E b \in Blocks(w) : b.id = n /\ b.len = L % B
                      /\ w[Len(w)] = Rx(AckPkt(n))

\* A source of two full blocks and more was read to its end, and so was a
\* source that ends with a full block.
C6_Witness ==
    \E p \in Peers :
        /\ RrqRunning(p)
        /\ sess[p].pc = "done" /\ sess[p].err = "none"
        /\ sess[p].file_len = 2 * sess[p].block_size
        /\ sess[p].file_len > 0
        /\ Cardinality(Blocks(wire[p])) = 3

----------------------------------------------------------------------------
(* Negotiation: every configuration against every request *)

NegConfigs == {c \in AllConfigs : c.max_send_retries = 0}

InitNeg == InitWith(NegConfigs) /\ tracing = TRUE

\* One peer sends a read or write request with any options; the session runs
\* up to its first window or its first block, the peer acknowledges an OACK or
\* sends one block and then keeps silent; the reader or the first send may fail.
NextNeg ==
    \/ /\ FirstPeer \notin reqs_in_progress
       /\ \E d \in Reqs({"RRQ", "WRQ"}, AllReqOpts) : RecvReq(FirstPeer, d)
    \/ LockHandler(FirstPeer)
    \/ \E known \in BOOLEAN : OpenRead(FirstPeer, NegFileLen, known, TRUE)
    \/ OpenWrite(FirstPeer, TRUE)
    \/ FillDataBlock(FirstPeer)
    \/ FillDataBlockFail(FirstPeer)
    \/ SendWindow(FirstPeer)
    \/ SendWindowFail(FirstPeer, 0)
    \/ sess[FirstPeer].pc = "recv_oack" /\ RecvAck(FirstPeer, 0)
    \/ Timeout(FirstPeer)
    \/ SendError(FirstPeer, TRUE)
    \/ WrqSendFirst(FirstPeer, TRUE)
    \/ /\ sess[FirstPeer].sink = <<>>
       /\ WrqRecvData(FirstPeer, DataPkt(sess[FirstPeer].block_id, 0, NegFileLen), TRUE)
    \/ WrqWrite(FirstPeer, TRUE)
    \/ WrqTimeout(FirstPeer, TRUE)
    \/ ReqFinishedOk(FirstPeer)

SpecNeg == InitNeg /\ [][NextNeg]_vars

\* The options an Opts record carries.
OptionNames == {"block_size", "timeout", "transfer_size", "window_size"}
Present(opts) == IF opts = NoOack THEN {} ELSE {f \in OptionNames : opts[f] # None}

\* The session of peer p has been set up by WriteRequest::init.
WrqRunning(p) == sess[p].kind = "WRQ" /\ sess[p].pc \notin {"none", "spawned", "open"}

\* C9 (as the code has it): the first datagram of an RRQ session, unless it is
\* the ERROR of a session whose reader or first send failed, is an OACK exactly
\* when an option is accepted (blksize, timeout, windowsize requested and not
\* ignored, tsize=0 requested and the size known) and DATA(1) otherwise; every
\* option of an OACK, RRQ or WRQ, is an option of the request.
C9_FirstDatagramAndOackOptions ==
    \A p \in Peers :
        LET s == sess[p]
            w == wire[p]
            accepted ==
                {f \in {"block_size"} : s.req.block_size # None /\ ~config.ignore_client_block_size}
                \cup {f \in {"timeout"} : s.req.timeout # None /\ ~config.ignore_client_timeout}
                \cup {f \in {"window_size"} : s.req.window_size # None /\ ~config.ignore_client_window_size}
                \cup {f \in {"transfer_size"} : s.req.transfer_size = 0 /\ s.file_size # None}
        IN  /\ (RrqRunning(p) /\ w # <<>>) =>
                  /\ w[1].dir = "tx"
                  /\ w[1].pkt.t \in {"OACK", "DATA", "ERROR"}
                  /\ w[1].pkt.t = "ERROR" => s.err = w[1].pkt.err /\ Len(w) = 1
                  /\ w[1].pkt.t # "ERROR" =>
                        /\ w[1].pkt.t = "OACK" <=> accepted # {}
                        /\ w[1].pkt.t = "OACK" => Present(w[1].pkt.opts) = accepted
                        /\ w[1].pkt.t = "DATA" => w[1].pkt.id = 1
            /\ (RrqRunning(p) \/ WrqRunning(p)) =>
                  \A i \in Sent(w, "session", "OACK") :
                      Present(w[i].pkt.opts) \subseteq Present(s.req)

\* An RRQ session whose request carried two options of which one is ignored:
\* its first datagram is an OACK with the other one only.
C9_Witness ==
    \E p \in Peers :
        /\ RrqRunning(p)
        /\ Present(sess[p].req) = {"block_size", "timeout"}
        /\ config.ignore_client_timeout
        /\ wire[p] # <<>>
        /\ wire[p][1].pkt.t = "OACK"
        /\ Present(wire[p][1].pkt.opts) = {"block_size"}

\* C9 (as the specification has it): the first datagram of an RRQ session is
\* an OACK exactly when an option is accepted and DATA(1) otherwise; every
\* option of an OACK is an option of the request.
C9_FirstDatagramOackOrData ==
    \A p \in Peers :
        LET s == sess[p]
            w == wire[p]
            accepted ==
                {f \in {"block_size"} : s.req.block_size # None /\ ~config.ignore_client_block_size}
                \cup {f \in {"timeout"} : s.req.timeout # None /\ ~config.ignore_client_timeout}
                \cup {f \in {"window_size"} : s.req.window_size # None /\ ~config.ignore_client_window_size}
                \cup {f \in {"transfer_size"} : s.req.transfer_size = 0 /\ s.file_size # None}
        IN  /\ (RrqRunning(p) /\ w # <<>>) =>
                  /\ w[1].pkt.t = "OACK" <=> accepted # {}
                  /\ accepted = {} => w[1].pkt.t = "DATA" /\ w[1].pkt.id = 1
            /\ (RrqRunning(p) \/ WrqRunning(p)) =>
                  \A i \in Sent(w, "session", "OACK") :
                      Present(w[i].pkt.opts) \subseteq Present(s.req)

\* C10: a session of a request with blksize=b uses 512 when the option is
\* ignored, min(b, block_size_limit) when a limit is set and b when none is, a
\* session of a request without blksize uses 512; an OACK announces that block
\* size or none, and the DATA blocks are cut with it.
C10_BlockSizeNegotiated ==
    \A p \in Peers :
        (RrqRunning(p) \/ WrqRunning(p)) =>
            LET s == sess[p]
                w == wire[p]
                b == s.req.block_size
                taken == b # None /\ ~config.ignore_client_block_size
                B == IF ~taken THEN DEFAULT_BLOCK_SIZE
                     ELSE IF config.block_size_limit # None
                          THEN Min(b, config.block_size_limit)
                          ELSE b
            IN  /\ s.block_size = B
                /\ \A i \in Sent(w, "session", "OACK") :
                      w[i].pkt.opts.block_size = IF taken THEN B ELSE None
                /\ taken => s.oack_opts # NoOack
                /\ \A i \in Sent(w, "session", "DATA") :
                      w[i].pkt.len = Min(B, s.file_len - w[i].pkt.off)
                /\ s.data.len <= B

\* A request with blksize above the limit: the OACK announces the limit and
\* the first DATA block has as many bytes.
C10_Witness ==
    \E p \in Peers :
        /\ RrqRunning(p)
        /\ sess[p].req.block_size # None
        /\ config.block_size_limit # None
        /\ sess[p].req.block_size > config.block_size_limit
        /\ \E i \in Sent(wire[p], "session", "OACK") :
              wire[p][i].pkt.opts.block_size = config.block_size_limit
        /\ \E i \in Sent(wire[p], "session", "DATA") :
              wire[p][i].pkt.len = config.block_size_limit

----------------------------------------------------------------------------
(* A transfer of more than 65535 blocks *)

WrapConfigs == {c \in BuilderConfigs : c.max_send_retries = 0}

\* Requests without options or with windowsize only.
WrapReqOpts ==
    {o \in AllReqOpts : o.block_size = None /\ o.timeout = None /\ o.transfer_size = None
                        /\ o.window_size \in {None, 3}}

InitWrap == InitWith(WrapConfigs) /\ tracing = FALSE

\* One peer reads a source of WrapBlocks full blocks of the default size and
\* acknowledges every block, or any block of the window.
NextWrap ==
    \/ /\ FirstPeer \notin reqs_in_progress
       /\ \E o \in WrapReqOpts : RecvReq(FirstPeer, ReqPkt("RRQ", o))
    \/ LockHandler(FirstPeer)
    \/ OpenRead(FirstPeer, WrapBlocks * DEFAULT_BLOCK_SIZE, FALSE, TRUE)
    \/ FillDataBlock(FirstPeer)
    \/ SendWindow(FirstPeer)
    \/ \E id \in AckIds(sess[FirstPeer]) : RecvAck(FirstPeer, id)
    \/ ReqFinishedOk(FirstPeer)

SpecWrap == InitWrap /\ [][NextWrap]_vars

\* C5: the first block has id 1 and the block that starts at byte k * B of the
\* source has id (k + 1) mod 2^16, so that id 0 follows 65535 and 1 follows 0;
\* window_base is the id of the first block not yet acknowledged, and the
\* arithmetic of the acknowledgements never leaves 0..65535.
C5_BlockIdsWrap ==
    \A p \in Peers :
        RrqRunning(p) =>
            LET s == sess[p]
            IN  /\ s.pc # "panicked"
                /\ \A i \in 1..Len(s.window) :
                      s.window[i].id = ((s.window[i].off \div s.block_size) + 1) % U16
                /\ s.window_base \in 0..(U16 - 1)
                /\ s.window # <<>> => s.window[1].id = s.window_base

\* A source of more than 65536 blocks was read to its end: the last block had
\* a wrapped id and the transfer completed.
C5_Witness ==
    \E p \in Peers :
        /\ RrqRunning(p)
        /\ sess[p].pc = "done" /\ sess[p].err = "none"
        /\ sess[p].pos = sess[p].file_len
        /\ (sess[p].file_len \div sess[p].block_size) + 1 > U16
        /\ sess[p].window_base
              = ((sess[p].file_len \div sess[p].block_size) + 2) % U16

----------------------------------------------------------------------------
(* Option values, checked under SpecNeg *)

\* The block sizes RFC 2348 allows, which are the ones the request parser lets
\* through.
BlockSizeRange == 8..65464

\* C11: whatever the configuration and the request, the block size a session
\* negotiates, announces in its OACK and uses lies within 8..65464, and no DATA
\* payload exceeds it.
C11_BlockSizeInRange ==
    \A p \in Peers :
        RrqRunning(p) \/ WrqRunning(p) =>
            /\ sess[p].block_size \in BlockSizeRange
            /\ \A i \in Sent(wire[p], "session", "OACK") :
                   wire[p][i].pkt.opts.block_size \in {None} \cup BlockSizeRange
            /\ \A i \in Sent(wire[p], "session", "DATA") :
                   wire[p][i].pkt.len <= sess[p].block_size

\* The timeout option of the request of session s that the server takes.
TimeoutTaken(s) ==
    IF s.req.timeout # None /\ ~config.ignore_client_timeout
    THEN s.req.timeout ELSE None

\* C12: a timeout option of the request is left out of the OACK and the session
\* waits the server's timeout when ignore_client_timeout is set; otherwise it is
\* echoed unchanged and is the session's timeout; without the option the session
\* waits the server's timeout.
C12_TimeoutNegotiated ==
    \A p \in Peers :
        RrqRunning(p) \/ WrqRunning(p) =>
            /\ sess[p].timeout = IF TimeoutTaken(sess[p]) # None
                                 THEN TimeoutTaken(sess[p]) ELSE config.timeout
            /\ TimeoutTaken(sess[p]) # None => sess[p].oack_opts # NoOack
            /\ \A i \in Sent(wire[p], "session", "OACK") :
                   wire[p][i].pkt.opts.timeout = TimeoutTaken(sess[p])

\* A request with a timeout other than the server's was answered with an OACK
\* that echoes it; another, under ignore_client_timeout, with an OACK without it.
C12_Witness ==
    \E p \in Peers :
        /\ sess[p].req.timeout \notin {None, config.timeout}
        /\ Sent(wire[p], "session", "OACK") # {}
        /\ ~config.ignore_client_timeout
        /\ sess[p].timeout = sess[p].req.timeout
        /\ wire[p][1].pkt.opts.timeout = sess[p].req.timeout

C12_WitnessIgnored ==
    \E p \in Peers :
        /\ sess[p].req.timeout \notin {None, config.timeout}
        /\ Sent(wire[p], "session", "OACK") # {}
        /\ config.ignore_client_timeout
        /\ sess[p].timeout = config.timeout

\* The size an RRQ session must announce: the handler's, when the request has
\* tsize=0 and the handler reported one.
TransferSizeDue(s) ==
    IF s.req.transfer_size = 0 /\ s.file_size # None THEN s.file_size ELSE None

\* C13: the OACK of an RRQ session has tsize exactly when the request had tsize=0
\* and the handler reported a size, and its value is that size; a nonzero tsize
\* or an unknown size never gives one.
C13_TransferSizeAnnounced ==
    \A p \in Peers :
        RrqRunning(p) =>
            /\ TransferSizeDue(sess[p]) # None => sess[p].oack_opts # NoOack
            /\ sess[p].oack_opts # NoOack =>
                   sess[p].oack_opts.transfer_size = TransferSizeDue(sess[p])
            /\ \A i \in Sent(wire[p], "session", "OACK") :
                   wire[p][i].pkt.opts.transfer_size = TransferSizeDue(sess[p])

\* tsize=0 with a known size was answered with the size; a nonzero tsize with a
\* known size was answered with an OACK that has none.
C13_Witness ==
    \E p \in Peers :
        /\ RrqRunning(p) /\ sess[p].req.transfer_size = 0
        /\ sess[p].file_size = NegFileLen
        /\ Sent(wire[p], "session", "OACK") # {}
        /\ wire[p][1].pkt.opts.transfer_size = NegFileLen

C13_WitnessNonzero ==
    \E p \in Peers :
        /\ RrqRunning(p) /\ sess[p].req.transfer_size \notin {None, 0}
        /\ sess[p].file_size = NegFileLen
        /\ Sent(wire[p], "session", "OACK") # {}
        /\ wire[p][1].pkt.opts.transfer_size = None


----------------------------------------------------------------------------
(* The peer refuses the OACK, checked under SpecRrq *)

\* C14: when the peer answers the OACK of an RRQ session with an ERROR of code
\* OptionNegotiationFailed, the session terminates and the server sends nothing
\* more to that peer: no DATA, no ERROR, no OACK again.
C14_RefusedOackEndsSilently ==
    \A p \in Peers :
        sess[p].err = "OptionNegotiationFailed" =>
            /\ sess[p].pc \in {"done", "none"}
            /\ sess[p].result = "ok"
            /\ wire[p] # <<>>
            /\ wire[p][Len(wire[p])] = Rx(ErrorPkt("OptionNegotiationFailed"))
            /\ Sent(wire[p], "session", "ERROR") = {}
            /\ Sent(wire[p], "dispatcher", "ERROR") = {}

\* The peer refused the OACK, which was the only datagram of the session, and
\* serve has taken the finished task.
C14_Witness ==
    \E p \in Peers :
        /\ sess[p].err = "OptionNegotiationFailed" /\ sess[p].pc = "none"
        /\ p \notin reqs_in_progress
        /\ Len(wire[p]) = 2
        /\ wire[p][1].dir = "tx" /\ wire[p][1].pkt.t = "OACK"
        /\ wire[p][2] = Rx(ErrorPkt("OptionNegotiationFailed"))


----------------------------------------------------------------------------
(* Retransmissions, checked under SpecRrq *)

\* The DATA packets session p has built: those it sent and those in its window.
Built(p) == Blocks(wire[p]) \cup {sess[p].window[i] : i \in 1..Len(sess[p].window)}

RECURSIVE BytesIn(_)
\* The number of source bytes in a set of DATA packets.
BytesIn(blocks) ==
    IF blocks = {} THEN 0
    ELSE LET b == CHOOSE x \in blocks : TRUE IN b.len + BytesIn(blocks \ {b})

\* C15: every retransmission of the OACK or of DATA(n) carries the bytes of its
\* first transmission; a retransmission does not read the reader again, and
\* every byte of the source is read once: the packets built hold the bytes read
\* so far, none twice.
C15_RetransmissionsIdentical ==
    \A p \in Peers :
        RrqRunning(p) =>
            LET s == sess[p]
                w == wire[p]
            IN  /\ \A i, j \in Sent(w, "session", "DATA") :
                       w[i].pkt.id = w[j].pkt.id => w[i].pkt = w[j].pkt
                /\ \A i \in Sent(w, "session", "OACK") : w[i].pkt = OAckPkt(s.oack_opts)
                /\ \A b \in Built(p) : b.off + b.len <= s.pos
                /\ \A b, c \in Built(p) :
                       b # c => b.off + b.len <= c.off \/ c.off + c.len <= b.off
                /\ BytesIn(Built(p)) = s.pos
                /\ s.pos <= s.file_len
                /\ s.pc = "done" /\ s.err = "none" => s.pos = s.file_len

\* A transfer of several blocks has completed in which the OACK and a DATA
\* block were each sent twice.
C15_Witness ==
    \E p \in Peers :
        /\ RrqRunning(p) /\ sess[p].pc = "done" /\ sess[p].err = "none"
        /\ sess[p].file_len > sess[p].block_size
        /\ Cardinality(Sent(wire[p], "session", "OACK")) = 2
        /\ \E b \in Blocks(wire[p]) : b.len > 0 /\ Transmissions(wire[p], b) = 2


----------------------------------------------------------------------------
(* The handler refuses to open, checked under Spec *)

\* C16 (as the code has it): when the handler's open fails for an accepted RRQ
\* or WRQ, the only datagram the peer is sent is one ERROR carrying the
\* handler's error, sent by serve, and none at all when serve's send fails; no
\* OACK, DATA or ACK is sent, no engine runs, and the peer's slot is released.
C16_OpenFailureAtMostOneError ==
    \A p \in Peers :
        sess[p].err \in HandlerErrors =>
            /\ sess[p].pc \in {"done", "none"}
            /\ sess[p].result = "err"
            /\ handler_lock # p
            /\ Len(wire[p]) <= 1
            /\ \A i \in 1..Len(wire[p]) :
                   wire[p][i] = Tx("dispatcher", ErrorPkt(sess[p].err))
            /\ sess[p].pc = "done" => wire[p] = <<>>
            /\ sess[p].pc = "none" => p \notin reqs_in_progress

\* The open failed, serve has sent the handler's error and released the slot.
C16_Witness ==
    \E p \in Peers :
        /\ sess[p].err \in HandlerErrors /\ sess[p].pc = "none"
        /\ wire[p] = <<Tx("dispatcher", ErrorPkt(sess[p].err))>>
        /\ p \notin reqs_in_progress

\* C16 (as the specification has it): when the handler's open fails, the peer
\* is sent exactly one ERROR carrying the handler's error.
C16_OpenFailureExactlyOneError ==
    \A p \in Peers :
        sess[p].err \in HandlerErrors /\ sess[p].pc = "none" =>
            wire[p] = <<Tx("dispatcher", ErrorPkt(sess[p].err))>>


----------------------------------------------------------------------------
(* The first datagram of a write session, checked under SpecNeg *)

\* The options of the request of session s that a WRQ session accepts: blksize
\* and timeout as the configuration lets them through, tsize as it came.
WrqAccepted(s) ==
    [block_size    |-> IF s.req.block_size # None /\ ~config.ignore_client_block_size
                       THEN IF config.block_size_limit # None
                            THEN Min(s.req.block_size, config.block_size_limit)
                            ELSE s.req.block_size
                       ELSE None,
     timeout       |-> TimeoutTaken(s),
     transfer_size |-> s.req.transfer_size,
     window_size   |-> None]

C17_WitnessAck ==
    \E p \in Peers :
        /\ WrqRunning(p) /\ sess[p].pc = "w_recv"
        /\ sess[p].req # OptsDefault
        /\ wire[p] = <<Tx("session", AckPkt(0))>>


----------------------------------------------------------------------------
(* The write-request engine to the end of a transfer: one peer *)

\* Configurations with and without a block size limit, every retry cap.
WrqConfigs ==
    {c \in AllConfigs :
        /\ ~c.ignore_client_timeout
        /\ ~c.ignore_client_block_size
        /\ ~c.ignore_client_window_size
        /\ c.window_size_limit = None}

\* Write requests with and without blksize.
WrqReqOpts ==
    {o \in AllReqOpts : o.timeout = None /\ o.transfer_size = None /\ o.window_size = None}

InitWrq == InitWith(WrqConfigs) /\ tracing = TRUE

\* One peer writes a file of up to MaxBlocks full blocks and a last one; it sends
\* the expected block or the one before it, other datagrams, or keeps silent;
\* another peer's datagrams reach the session's socket; the writer may fail.
NextWrq ==
    \/ /\ FirstPeer \notin reqs_in_progress
       /\ \E d \in Reqs({"WRQ"}, WrqReqOpts) : RecvReq(FirstPeer, d)
    \/ LockHandler(FirstPeer)
    \/ OpenWrite(FirstPeer, TRUE)
    \/ WrqSendFirst(FirstPeer, TRUE)
    \/ \E d \in PeerData(sess[FirstPeer]) : WrqRecvData(FirstPeer, d, TRUE)
    \/ \E from \in Peers, d \in PeerData(sess[FirstPeer]) \cup SessionPkts :
           WrqRecvIgnored(FirstPeer, from, d)
    \/ WrqRecvIoError(FirstPeer)
    \/ WrqTimeout(FirstPeer, TRUE)
    \/ \E written \in BOOLEAN : WrqWrite(FirstPeer, written)
    \/ SendError(FirstPeer, TRUE)
    \/ ReqFinishedOk(FirstPeer)

SpecWrq == InitWrq /\ [][NextWrq]_vars

\* C18: while a WRQ session awaits DATA(n), a timeout sends the previous
\* acknowledgement again unchanged, and no ACK or OACK is sent again more than
\* max_send_retries times, the cap of the RRQ engine: it is on the wire at most
\* max_send_retries + 1 times.
C18_AckRetransmissionsBounded ==
    \A p \in Peers :
        WrqRunning(p) =>
            \A i \in Sent(wire[p], "session", "ACK") \cup Sent(wire[p], "session", "OACK") :
                Transmissions(wire[p], wire[p][i].pkt) <= sess[p].max_send_retries + 1

\* An entry of wire that is a DATA datagram the session took from its peer.
IsRxData(e) == e.dir = "rx" /\ e.pkt.t = "DATA"

\* The DATA datagrams session p has taken, as the peer sent them.
RxData(p) == SelectSeq(wire[p], IsRxData)

\* C19: the bytes written to the sink of a WRQ session are the payloads of
\* DATA(1), DATA(2), ... in order, each block once, whatever datagrams arrive; a
\* datagram that is not the expected DATA of the peer is neither written nor
\* acknowledged.
C19_SinkIsPayloadsInOrder ==
    \A p \in Peers :
        WrqRunning(p) =>
            LET s == sess[p]
                w == wire[p]
                rx == RxData(p)
            IN  /\ Len(s.sink) <= Len(rx) /\ Len(rx) <= Len(s.sink) + 1
                /\ \A k \in 1..Len(rx) : rx[k].pkt.id = k
                /\ \A k \in 1..Len(s.sink) : s.sink[k] = rx[k].pkt
                /\ \A i \in Sent(w, "session", "ACK") :
                       w[i].pkt.id = 0 \/ \E j \in 1..(i - 1) :
                                             IsRxData(w[j]) /\ w[j].pkt.id = w[i].pkt.id

\* C20: a WRQ session terminates successfully exactly after it has received,
\* acknowledged and written the first expected DATA whose payload is shorter
\* than the negotiated block size, an empty payload included; a DATA of the full
\* block size never ends it; after it has terminated it sends nothing.
C20_EndsAfterFirstShortBlock ==
    \A p \in Peers :
        LET s == sess[p]
            w == wire[p]
            rx == RxData(p)
        IN  /\ WrqRunning(p) =>
                   /\ (s.pc = "done" /\ s.err = "none")
                          <=> \E k \in 1..Len(s.sink) : s.sink[k].len < s.block_size
                   /\ \A k \in 1..(Len(s.sink) - 1) : s.sink[k].len = s.block_size
                   /\ s.pc = "done" /\ s.err = "none" =>
                          /\ s.result = "ok"
                          /\ Len(rx) = Len(s.sink)
                          /\ rx[Len(rx)].pkt = s.sink[Len(s.sink)]
            /\ s.result = "ok" /\ s.err = "none" =>
                   /\ Len(w) >= 3
                   /\ w[Len(w)] = Tx("session", AckPkt(rx[Len(rx)].pkt.id))
                   /\ w[Len(w) - 1] = rx[Len(rx)]

\* A transfer of a full block and an empty last block has ended successfully
\* with ACK(2) as its last datagram, and serve has taken the task.
C20_Witness ==
    \E p \in Peers :
        /\ sess[p].result = "ok" /\ sess[p].err = "none" /\ sess[p].pc = "none"
        /\ Len(RxData(p)) = 2
        /\ RxData(p)[1].pkt.len = config.block_size_limit
        /\ RxData(p)[2].pkt.len = 0
        /\ wire[p][Len(wire[p])] = Tx("session", AckPkt(2))


----------------------------------------------------------------------------
(* The listening socket, checked under Spec *)

\* C21: a datagram on the listening socket that does not decode, or decodes to
\* DATA, ACK, ERROR or OACK, is dropped silently: nothing is sent, no task is
\* spawned, the set in progress and the sessions stay as they are, and serve
\* keeps receiving.
C21_StrayDatagramDropped ==
    [][\A p \in Peers :
          (\E d \in StrayPkts : RecvReq(p, d))
          => /\ last_req' = [peer |-> p, verdict |-> "stray"]
             /\ serve_state' = "running"
             /\ UNCHANGED <<reqs_in_progress, futs, sess, wire, handler_lock>>]_vars

\* The last datagram serve received was no request; its sender has nothing in
\* progress and was sent nothing, while another peer's session is running.
C21_Witness ==
    \E p \in Peers :
        /\ last_req = [peer |-> p, verdict |-> "stray"]
        /\ p \notin reqs_in_progress /\ wire[p] = <<>> /\ futs[p] = 0
        /\ serve_state = "running"
        /\ \E q \in Peers \ {p} : sess[q].pc \in {"recv", "w_recv"}

\* C22: when receiving on the listening socket fails, serve stops and accepts
\* no further request; nothing else stops it, whatever the sessions come to.
C22_ServeStopsOnlyOnRecvError ==
    [][/\ RecvReqFail => serve_state' = "stopped"
       /\ (serve_state = "running" /\ serve_state' # "running") => RecvReqFail
       /\ serve_state = "stopped" =>
              UNCHANGED <<serve_state, reqs_in_progress, futs, sess, wire, last_req>>]_vars

\* serve has returned on a receive error while a request was in progress.
C22_Witness ==
    /\ serve_state = "stopped"
    /\ reqs_in_progress # {}
    /\ \A p \in Peers : futs[p] = 0

\* serve is running after a task returned Err whose ERROR could not be sent and
\* after another session failed on its own.
C22_WitnessRunning ==
    /\ serve_state = "running"
    /\ \E p, q \in Peers :
           /\ sess[p].pc = "none" /\ sess[p].result = "err" /\ wire[p] = <<>>
           /\ sess[q].pc = "none" /\ sess[q].err = "MaxSendRetriesReached"


----------------------------------------------------------------------------
(* The stop-and-wait engine of read_req.rs, run over the wire of a session *)

\* The plain engine reads the next block and makes it the packet to send.
PlainNextBlock(st, file_len, block_size) ==
    LET len == Min(block_size, file_len - st.pos)
        id == wrapping_add(st.block_id, 1)
    IN  [st EXCEPT !.block_id = id,
                   !.pkt = DataPkt(id, st.pos, len),
                   !.pos = st.pos + len,
                   !.is_last_block = len < block_size,
                   !.pc = "send"]

\* try_handle of the plain engine at its start: the OACK, if there is one, is the
\* first packet to send, else DATA(1).
PlainStart(oack, file_len, block_size) ==
    LET st == [pc |-> "send", block_id |-> 0, pos |-> 0, is_last_block |-> FALSE,
               pkt |-> OAckPkt(oack)]
    IN  IF oack # NoOack THEN st ELSE PlainNextBlock(st, file_len, block_size)

\* The plain engine at one entry of the wire.  send transmits its packet, and
\* again after every timeout, without a bound; recv_ack takes the ACK of its
\* block id and ignores every other datagram, an ERROR of the peer too.  An
\* entry the engine does not produce or accept rejects the wire.
plain_step(st, e, file_len, block_size) ==
    IF st.pc \in {"send", "wait"} /\ e = Tx("session", st.pkt)
    THEN [st EXCEPT !.pc = "wait"]
    ELSE IF st.pc = "wait" /\ e = Rx(AckPkt(st.block_id))
    THEN IF st.pkt.t = "DATA" /\ st.is_last_block
         THEN [st EXCEPT !.pc = "done"]
         ELSE PlainNextBlock(st, file_len, block_size)
    ELSE IF st.pc = "wait" /\ e.dir = "rx" /\ e.pkt.t # "ACK"
    THEN st
    ELSE [st EXCEPT !.pc = "reject"]

RECURSIVE PlainRunFrom(_, _, _, _)
PlainRunFrom(st, w, file_len, block_size) ==
    IF w = <<>> THEN st
    ELSE PlainRunFrom(plain_step(st, Head(w), file_len, block_size), Tail(w),
                      file_len, block_size)

\* The plain engine after the datagrams of session p, for the file, the block
\* size and the OACK of that session.
PlainRun(p, w) ==
    PlainRunFrom(PlainStart(sess[p].oack_opts, sess[p].file_len, sess[p].block_size),
                 w, sess[p].file_len, sess[p].block_size)

\* An entry of wire that is no ERROR of the session.
NotSessionError(e) == ~(e.dir = "tx" /\ e.pkt.t = "ERROR")

\* The ids of the ACKs that the windowed engine of session s takes.
AcceptedAcks(s) ==
    {id \in AckIds(s) :
        (IF s.pc = "recv_oack" THEN recv_ack(0, 1, id)
         ELSE recv_ack(s.window_base, Len(s.window), id)).accept}

----------------------------------------------------------------------------
(* The packet codec: packet.rs (the parser is the one of parse.rs) *)

\* Opcodes.
RRQ == 1
WRQ == 2
DATA == 3
ACK == 4
ERROR == 5
OACK == 6

\* Texts are sequences of bytes.  The names the parser knows, in ASCII:
\* "blksize", "timeout", "tsize", "netascii", "octet", "mail".
B_blksize == <<98, 108, 107, 115, 105, 122, 101>>
B_timeout == <<116, 105, 109, 101, 111, 117, 116>>
B_tsize == <<116, 115, 105, 122, 101>>
B_netascii == <<110, 101, 116, 97, 115, 99, 105, 105>>
B_octet == <<111, 99, 116, 101, 116>>
B_mail == <<109, 97, 105, 108>>

\* The largest values of u8 and u16.  u64::MAX is beyond the integers of the
\* model checker: IntMax stands for it, and the tsize texts of the model stay
\* below it.
U8Max == 255
U16Max == 65535
IntMax == 2147483647

\* u8::to_ascii_lowercase, as tag_no_case compares.
Lower(c) == IF c \in 65..90 THEN c + 32 ELSE c

EqNoCase(a, t) == Len(a) = Len(t) /\ \A i \in 1..Len(t) : Lower(a[i]) = Lower(t[i])

\* A parser that does not match.
Fail == [ok |-> FALSE]

Ok(val, rest) == [ok |-> TRUE, val |-> val, rest |-> rest]

Drop(input, n) == SubSeq(input, n + 1, Len(input))

be_u16(input) ==
    IF Len(input) >= 2 THEN Ok(input[1] * 256 + input[2], Drop(input, 2)) ELSE Fail

\* str::from_utf8 on the texts of the model, which are made of ASCII bytes and
\* of the byte 255, which no UTF-8 text holds.
from_utf8_ok(t) == \A i \in 1..Len(t) : t[i] < 128

\* take_till(NUL), tag(NUL), str::from_utf8.
nul_str(input) ==
    IF \A i \in 1..Len(input) : input[i] # 0 THEN Fail
    ELSE LET n == CHOOSE i \in 1..Len(input) :
                      input[i] = 0 /\ \A j \in 1..(i - 1) : input[j] # 0
             t == SubSeq(input, 1, n - 1)
         IN  IF from_utf8_ok(t) THEN Ok(t, Drop(input, n)) ELSE Fail

tag_no_case(t, input) ==
    IF Len(input) >= Len(t) /\ EqNoCase(SubSeq(input, 1, Len(t)), t)
    THEN Ok(t, Drop(input, Len(t)))
    ELSE Fail

RECURSIVE DecVal(_, _, _)
\* The value of the digits d after acc, or max + 1 once it is beyond max.
DecVal(d, acc, max) ==
    IF d = <<>> THEN acc
    ELSE LET v == acc * 10 + (Head(d) - 48)
         IN  IF v > max THEN max + 1 ELSE DecVal(Tail(d), v, max)

\* uN::from_str: an optional "+", then one digit at least and digits only, the
\* value no larger than max.
from_str(t, max) ==
    LET d == IF t # <<>> /\ t[1] = 43 THEN Tail(t) ELSE t
    IN  IF d = <<>> \/ \E i \in 1..Len(d) : d[i] \notin 48..57 THEN None
        ELSE IF DecVal(d, 0, max) > max THEN None ELSE DecVal(d, 0, max)

\* tuple((tag_no_case(name NUL), nul_str)): the value text of an option named
\* name.
ValueAfter(t) == IF t.ok THEN nul_str(t.rest) ELSE Fail

opt_value(name, input) == ValueAfter(tag_no_case(name \o <<0>>, input))

Opt(k, v) == [k |-> k, v |-> v]

\* .filter(|n| lo <= n && n <= hi).map(Opt::k) on what from_str returned.
Filtered(n, lo, hi, k, rest) ==
    IF n # None /\ n >= lo /\ n <= hi THEN Ok(Opt(k, n), rest) ELSE Fail

\* map_opt on the value text r of a known option: from_str for numbers up to
\* max, then the filter.
NumOpt(r, max, lo, hi, k) ==
    IF r.ok THEN Filtered(from_str(r.val, max), lo, hi, k, r.rest) ELSE Fail

\* Any u16 is taken for a block size.
parse_opt_blksize_any_u16(input) ==
    NumOpt(opt_value(B_blksize, input), U16Max, 0, U16Max, "BlkSize")

parse_opt_blksize(input) ==
    NumOpt(opt_value(B_blksize, input), U16Max, 8, 65464, "BlkSize")

parse_opt_timeout(input) ==
    NumOpt(opt_value(B_timeout, input), U8Max, 1, U8Max, "Timeout")

parse_opt_tsize(input) ==
    NumOpt(opt_value(B_tsize, input), IntMax, 0, IntMax, "Tsize")

InvalidWith(name, v) ==
    IF v.ok THEN Ok(Opt("Invalid", <<name, v.val>>), v.rest) ELSE Fail

InvalidAfter(k) == IF k.ok THEN InvalidWith(k.val, nul_str(k.rest)) ELSE Fail

\* map(tuple((nul_str, nul_str)), Opt::Invalid): any other pair.
parse_opt_invalid(input) == InvalidAfter(nul_str(input))

\* alt of two parsers' results: the first if it matched.
Alt(a, b) == IF a.ok THEN a ELSE b

\* alt without the generic pair.
parse_opt_known_only(input) ==
    Alt(parse_opt_blksize(input), Alt(parse_opt_timeout(input), parse_opt_tsize(input)))

\* alt: the first of the four that matches.
parse_opt(input) ==
    Alt(parse_opt_blksize(input),
        Alt(parse_opt_timeout(input),
            Alt(parse_opt_tsize(input), parse_opt_invalid(input))))

RECURSIVE many0_opt(_)

Many0Cons(v, m) == Ok(<<v>> \o m.val, m.rest)

Many0After(r, input) ==
    IF ~r.ok THEN Ok(<<>>, input) ELSE Many0Cons(r.val, many0_opt(r.rest))

\* many0: pairs as long as one matches.
many0_opt(input) == Many0After(parse_opt(input), input)

RECURSIVE to_opts_from_last_wins(_, _)
\* The loop without its is_none tests.
to_opts_from_last_wins(opt_vec, opts) ==
    IF opt_vec = <<>> THEN opts
    ELSE LET opt == Head(opt_vec)
             next == IF opt.k = "BlkSize" THEN [opts EXCEPT !.block_size = opt.v]
                     ELSE IF opt.k = "Timeout" THEN [opts EXCEPT !.timeout = opt.v]
                     ELSE IF opt.k = "Tsize" THEN [opts EXCEPT !.transfer_size = opt.v]
                     ELSE opts
         IN  to_opts_from_last_wins(Tail(opt_vec), next)

RECURSIVE to_opts_from(_, _)
\* The loop of to_opts over opt_vec, opts being what the pairs before set.
to_opts_from(opt_vec, opts) ==
    IF opt_vec = <<>> THEN opts
    ELSE LET opt == Head(opt_vec)
             next == IF opt.k = "BlkSize" /\ opts.block_size = None
                         THEN [opts EXCEPT !.block_size = opt.v]
                     ELSE IF opt.k = "Timeout" /\ opts.timeout = None
                         THEN [opts EXCEPT !.timeout = opt.v]
                     ELSE IF opt.k = "Tsize" /\ opts.transfer_size = None
                         THEN [opts EXCEPT !.transfer_size = opt.v]
                     ELSE opts
         IN  to_opts_from(Tail(opt_vec), next)

to_opts(opt_vec) == to_opts_from(opt_vec, OptsDefault)

OptsOf(m) == Ok(to_opts(m.val), m.rest)

parse_opts(input) == OptsOf(many0_opt(input))

parse_mode(input) ==
    IF tag_no_case(B_netascii \o <<0>>, input).ok
        THEN Ok("Netascii", Drop(input, Len(B_netascii) + 1))
    ELSE IF tag_no_case(B_octet \o <<0>>, input).ok
        THEN Ok("Octet", Drop(input, Len(B_octet) + 1))
    ELSE IF tag_no_case(B_mail \o <<0>>, input).ok
        THEN Ok("Mail", Drop(input, Len(B_mail) + 1))
    ELSE Fail

\* The packets of the codec.
Rrq(filename, mode, opts) ==
    [t |-> "Rrq", filename |-> filename, mode |-> mode, opts |-> opts]

Wrq(filename, mode, opts) ==
    [t |-> "Wrq", filename |-> filename, mode |-> mode, opts |-> opts]

Data(block, data) == [t |-> "Data", block |-> block, data |-> data]

Ack(block) == [t |-> "Ack", block |-> block]

Error(code, msg) == [t |-> "Error", code |-> code, msg |-> msg]

OAck(opts) == [t |-> "OAck", opts |-> opts]

RwAfterOpts(filename, mode, o) ==
    Ok([filename |-> filename, mode |-> mode, opts |-> o.val], o.rest)

RwAfterMode(filename, m) ==
    IF m.ok THEN RwAfterOpts(filename, m.val, parse_opts(m.rest)) ELSE Fail

RwAfterName(f) == IF f.ok THEN RwAfterMode(f.val, parse_mode(f.rest)) ELSE Fail

\* tuple((nul_str, parse_mode, parse_opts)), of parse_rrq and parse_wrq.
parse_rwreq(input) == RwAfterName(nul_str(input))

RrqOf(r) == IF r.ok THEN Ok(Rrq(r.val.filename, r.val.mode, r.val.opts), r.rest) ELSE Fail

WrqOf(r) == IF r.ok THEN Ok(Wrq(r.val.filename, r.val.mode, r.val.opts), r.rest) ELSE Fail

parse_rrq(input) == RrqOf(parse_rwreq(input))

parse_wrq(input) == WrqOf(parse_rwreq(input))

DataOf(b) == IF b.ok THEN Ok(Data(b.val, b.rest), <<>>) ELSE Fail

parse_data(input) == DataOf(be_u16(input))

AckOf(b) == IF b.ok THEN Ok(Ack(b.val), b.rest) ELSE Fail

parse_ack(input) == AckOf(be_u16(input))

ErrorWith(code, m) == IF m.ok THEN Ok(Error(code, m.val), m.rest) ELSE Fail

ErrorAfter(c) == IF c.ok THEN ErrorWith(c.val, nul_str(c.rest)) ELSE Fail

parse_error(input) == ErrorAfter(be_u16(input))

OAckOf(o) == Ok(OAck(o.val), o.rest)

parse_oack(input) == OAckOf(parse_opts(input))

InvalidPacket == [ok |-> FALSE, err |-> "InvalidPacket"]

Decoded(packet) == [ok |-> TRUE, packet |-> packet]

\* The parser of the opcode's variant on the bytes after the opcode.
Variant(opcode, data) ==
    IF opcode = RRQ THEN parse_rrq(data)
    ELSE IF opcode = WRQ THEN parse_wrq(data)
    ELSE IF opcode = DATA THEN parse_data(data)
    ELSE IF opcode = ACK THEN parse_ack(data)
    ELSE IF opcode = ERROR THEN parse_error(data)
    ELSE IF opcode = OACK THEN parse_oack(data)
    ELSE Fail

\* The packet is returned whatever follows it.
WholeInput_ignores_rest(r) ==
    IF ~r.ok THEN InvalidPacket ELSE Decoded(r.val)

\* parse_packet after the variant's parser: its failure is InvalidPacket, and
\* so are bytes left over.
WholeInput(r) ==
    IF ~r.ok THEN InvalidPacket
    ELSE IF Len(r.rest) > 0 THEN InvalidPacket
    ELSE Decoded(r.val)

AfterOpcode(op) ==
    IF ~op.ok THEN InvalidPacket ELSE WholeInput(Variant(op.val, op.rest))

parse_packet(input) == AfterOpcode(be_u16(input))

from_bytes(data) == parse_packet(data)

\* The low byte first.
put_u16_le(n) == <<n % 256, n \div 256>>

put_u16_be(n) == <<n \div 256, n % 256>>

RECURSIVE to_string(_)
\* The decimal digits of n.
to_string(n) ==
    IF n < 10 THEN <<48 + n>> ELSE to_string(n \div 10) \o <<48 + (n % 10)>>

mode_to_str(mode) ==
    CASE mode = "Netascii" -> B_netascii
      [] mode = "Octet" -> B_octet
      [] mode = "Mail" -> B_mail

\* Opts::encode.
encode(opts) ==
    (IF opts.block_size # None
        THEN B_blksize \o <<0>> \o to_string(opts.block_size) \o <<0>> ELSE <<>>)
    \o (IF opts.timeout # None
        THEN B_timeout \o <<0>> \o to_string(opts.timeout) \o <<0>> ELSE <<>>)
    \o (IF opts.transfer_size # None
        THEN B_tsize \o <<0>> \o to_string(opts.transfer_size) \o <<0>> ELSE <<>>)

to_bytes(packet) ==
    CASE packet.t = "Rrq" ->
            put_u16_be(RRQ) \o packet.filename \o <<0>>
                \o mode_to_str(packet.mode) \o <<0>> \o encode(packet.opts)
      [] packet.t = "Wrq" ->
            put_u16_be(WRQ) \o packet.filename \o <<0>>
                \o mode_to_str(packet.mode) \o <<0>> \o encode(packet.opts)
      [] packet.t = "Data" -> put_u16_be(DATA) \o put_u16_be(packet.block) \o packet.data
      [] packet.t = "Ack" -> put_u16_be(ACK) \o put_u16_be(packet.block)
      [] packet.t = "Error" ->
            put_u16_be(ERROR) \o put_u16_be(packet.code) \o packet.msg \o <<0>>
      [] packet.t = "OAck" -> put_u16_be(OACK) \o encode(packet.opts)


----------------------------------------------------------------------------
(* The codec's inputs: packets to encode, datagrams to decode *)

\* The most option pairs in one request.
MaxPairs == 2

\* "a", "x", and a text that is no UTF-8.
T_a == <<97>>
T_x == <<120>>
T_bad == <<255>>

CodecOpts ==
    {[OptsDefault EXCEPT !.block_size = b, !.timeout = t, !.transfer_size = z] :
        b \in OptionOf({8, 512, 65464}), t \in OptionOf({1, 255}),
        z \in OptionOf({0, 5556})}

\* Valid packets: option values within their ranges, texts without NUL.
CodecPackets ==
    {Rrq(f, m, o) : f \in {<<>>, T_a}, m \in {"Netascii", "Octet", "Mail"}, o \in CodecOpts}
    \cup {Wrq(f, m, o) : f \in {<<>>, T_a}, m \in {"Netascii", "Octet", "Mail"}, o \in CodecOpts}
    \cup {Data(b, d) : b \in {0, 1, 256, U16Max}, d \in {<<>>, <<0>>, <<1, 0, 255>>}}
    \cup {Ack(b) : b \in {0, 1, 256, U16Max}}
    \cup {Error(c, m) : c \in {0, 1, 8, U16Max}, m \in {<<>>, T_x, T_x \o T_a}}
    \cup {OAck(o) : o \in CodecOpts}

Upper(c) == IF c \in 97..122 THEN c - 32 ELSE c

UpperText(t) == [i \in 1..Len(t) |-> Upper(t[i])]

\* A pair of a request as a client writes it: class tells whether its name is
\* one the parser knows with a value within the option's range ("legal"),
\* a known name with another value ("illegal"), another name ("unknown"), or
\* bytes that are no text ("malformed").
OptPair(name, value, class) == [name |-> name, value |-> value, class |-> class]

OptPairs ==
    {OptPair(B_blksize, to_string(n), "legal") : n \in {8, 65464}}
    \cup {OptPair(UpperText(B_blksize), to_string(9), "legal")}
    \cup {OptPair(B_timeout, to_string(n), "legal") : n \in {1, 255}}
    \cup {OptPair(B_tsize, to_string(n), "legal") : n \in {0, 9}}
    \cup {OptPair(B_blksize, v, "illegal") : v \in {to_string(7), to_string(65465), <<>>}}
    \cup {OptPair(B_timeout, v, "illegal") : v \in {to_string(0), to_string(256)}}
    \cup {OptPair(B_tsize, T_x, "illegal")}
    \cup {OptPair(T_x \o T_a, T_x, "unknown")}
    \cup {OptPair(T_bad, to_string(1), "malformed"), OptPair(T_x, T_bad, "malformed")}

PairSeqs == UNION {[1..n -> OptPairs] : n \in 0..MaxPairs}

RECURSIVE PairBytes(_)
\* name NUL value NUL of every pair.
PairBytes(ps) ==
    IF ps = <<>> THEN <<>>
    ELSE Head(ps).name \o <<0>> \o Head(ps).value \o <<0>> \o PairBytes(Tail(ps))

\* The requests the pairs are appended to.
RequestHeads == {Rrq(T_a, "Octet", OptsDefault), Wrq(T_a, "Octet", OptsDefault)}

RequestBytes(head, ps) == to_bytes(head) \o PairBytes(ps)

\* Datagrams of any content: encodings of packets, cut short at every length,
\* followed by more bytes, or under another opcode.
SomePackets ==
    {Ack(1), Error(1, T_x), Data(1, <<7>>), Rrq(T_a, "Octet", OptsDefault),
     Rrq(T_a, "Mail", [OptsDefault EXCEPT !.block_size = 8]),
     OAck(OptsDefault), OAck([OptsDefault EXCEPT !.timeout = 1])}

Junk == {<<0>>, T_x, <<0, 0>>, T_x \o <<0>>, T_x \o <<0>> \o T_a \o <<0>>}

Datagrams ==
    UNION {{SubSeq(to_bytes(P), 1, n) : n \in 0..Len(to_bytes(P))} : P \in SomePackets}
    \cup {to_bytes(P) \o j : P \in SomePackets, j \in Junk}
    \cup {put_u16_be(op) \o Drop(to_bytes(P), 2) :
              op \in {0, 7, 260, U16Max}, P \in SomePackets}

\* A packet is encoded for sending.
ToBytes(packet) ==
    /\ codec.op = "none"
    /\ codec' = [op |-> "to_bytes", packet |-> packet, bytes |-> to_bytes(packet)]
    /\ UNCHANGED <<config, reqs_in_progress, serve_state, handler_lock, sess, futs,
                   wire, last_req, tracing, dir_req, recv_req_futs, ack_call>>

\* The peer decodes what was encoded.
FromOwnBytes ==
    /\ codec.op = "to_bytes"
    /\ codec' = [op |-> "round_trip", packet |-> codec.packet, bytes |-> codec.bytes,
                 result |-> from_bytes(codec.bytes)]
    /\ UNCHANGED <<config, reqs_in_progress, serve_state, handler_lock, sess, futs,
                   wire, last_req, tracing, dir_req, recv_req_futs, ack_call>>

\* A datagram of any content is decoded.
FromBytes(data) ==
    /\ codec.op = "none"
    /\ codec' = [op |-> "datagram", bytes |-> data, result |-> from_bytes(data)]
    /\ UNCHANGED <<config, reqs_in_progress, serve_state, handler_lock, sess, futs,
                   wire, last_req, tracing, dir_req, recv_req_futs, ack_call>>

\* A request with option pairs is decoded.
FromRequestBytes(head, ps) ==
    /\ codec.op = "none"
    /\ codec' = [op |-> "request", head |-> head, pairs |-> ps,
                 bytes |-> RequestBytes(head, ps),
                 result |-> from_bytes(RequestBytes(head, ps))]
    /\ UNCHANGED <<config, reqs_in_progress, serve_state, handler_lock, sess, futs,
                   wire, last_req, tracing, dir_req, recv_req_futs, ack_call>>

\* ReadRequest::init and WriteRequest::init answer the options of a decoded
\* request.
BuildOack(file_size) ==
    /\ codec.op = "request"
    /\ codec.result.ok
    /\ codec' = [op |-> "oack", head |-> codec.head, pairs |-> codec.pairs,
                 bytes |-> codec.bytes, result |-> codec.result,
                 file_size |-> file_size,
                 oack |-> IF codec.result.packet.t = "Rrq"
                          THEN rrq_build_oack_opts(config, codec.result.packet.opts, file_size)
                          ELSE wrq_build_oack_opts(config, codec.result.packet.opts)]
    /\ UNCHANGED <<config, reqs_in_progress, serve_state, handler_lock, sess, futs,
                   wire, last_req, tracing, dir_req, recv_req_futs, ack_call>>

CodecConfigs ==
    {c \in NegConfigs :
        /\ c.block_size_limit = None
        /\ c.window_size_limit = None
        /\ ~c.ignore_client_window_size}

InitCodec == InitWith(CodecConfigs) /\ tracing = TRUE

NextCodec ==
    \/ \E packet \in CodecPackets : ToBytes(packet)
    \/ FromOwnBytes
    \/ \E data \in Datagrams : FromBytes(data)
    \/ \E head \in RequestHeads, ps \in PairSeqs : FromRequestBytes(head, ps)
    \/ \E file_size \in OptionOf({5}) : BuildOack(file_size)

SpecCodec == InitCodec /\ [][NextCodec]_vars

\* C24: for every valid packet of the variants RRQ, WRQ, DATA, ACK, ERROR and
\* OACK, decoding the bytes of its encoding yields the packet.
C24_DecodeEncodeRoundTrip ==
    codec.op = "round_trip" => codec.result = Decoded(codec.packet)

\* A request with its three options at their upper limits went through both
\* ways, and so did a DATA packet whose payload holds a NUL.
C24_Witness ==
    /\ codec.op = "round_trip"
    /\ codec.result.ok
    /\ \/ /\ codec.packet.t = "Rrq"
          /\ codec.packet.opts.block_size = 65464
          /\ codec.packet.opts.timeout = 255
          /\ codec.packet.opts.transfer_size = 5556
          /\ codec.result.packet.opts = codec.packet.opts
          /\ Len(codec.bytes) > 30
       \/ /\ codec.packet.t = "Data"
          /\ codec.packet.data = <<1, 0, 255>>
          /\ codec.result.packet.data = codec.packet.data


\* The opcode of a datagram of two bytes at least.
OpcodeOf(data) == data[1] * 256 + data[2]

\* C25: decode succeeds only if the whole input is consumed: an input with an
\* opcode outside 1..6 or shorter than its fixed header is InvalidPacket, every
\* failure is InvalidPacket, an ACK is accepted only when it is exactly 4 bytes,
\* an ERROR only when it ends at the NUL of its message, a DATA, ACK or ERROR
\* only when the input is the packet's bytes and nothing more, and a request or
\* OACK only when the input ends with the NUL of its last text.
C25_DecodeConsumesWholeInput ==
    codec.op \in {"round_trip", "datagram", "request", "oack"} =>
        LET data == codec.bytes
            r == codec.result
        IN  /\ (Len(data) < 2 \/ OpcodeOf(data) \notin 1..6) => r = InvalidPacket
            /\ (Len(data) \in 2..3 /\ OpcodeOf(data) \in {DATA, ACK, ERROR})
                   => r = InvalidPacket
            /\ ~r.ok => r = InvalidPacket
            /\ r.ok =>
                  /\ r.packet.t = "Ack" => Len(data) = 4
                  /\ r.packet.t = "Error" =>
                         /\ data[Len(data)] = 0
                         /\ \A i \in 5..(Len(data) - 1) : data[i] # 0
                  /\ r.packet.t \in {"Data", "Ack", "Error"} => to_bytes(r.packet) = data
                  /\ r.packet.t \in {"Rrq", "Wrq"} => data[Len(data)] = 0
                  /\ r.packet.t = "OAck" => (Len(data) = 2 \/ data[Len(data)] = 0)

\* An ACK followed by one more byte was rejected.
C25_Witness ==
    /\ codec.op = "datagram"
    /\ codec.bytes = to_bytes(Ack(1)) \o <<0>>
    /\ codec.result = InvalidPacket


\* The field of Opts an option name stands for.
FieldOf(name) ==
    IF EqNoCase(name, B_blksize) THEN "block_size"
    ELSE IF EqNoCase(name, B_timeout) THEN "timeout"
    ELSE IF EqNoCase(name, B_tsize) THEN "transfer_size"
    ELSE "none"

\* The pairs of ps that are not of the classes cs.
Without(ps, cs) == SelectSeq(ps, LAMBDA q : q.class \notin cs)

HasClass(ps, class) == \E i \in 1..Len(ps) : ps[i].class = class

\* A request with option pairs was decoded.
RequestDecoded == codec.op \in {"request", "oack"}

\* C26: a pair with a recognised name and an illegal value (blksize below 8 or
\* above 65464, timeout 0 or above 255, a value that is no number) does not
\* fail the decode: the request decodes to what it decodes to without that
\* pair, an option that only such pairs name is absent, and an option that a
\* pair with a legal value names is present.
C26_IllegalValueDropsThePair ==
    (RequestDecoded /\ HasClass(codec.pairs, "illegal")
                    /\ ~HasClass(codec.pairs, "malformed")) =>
        LET ps == codec.pairs
            r == codec.result
        IN  /\ r.ok
            /\ r = from_bytes(RequestBytes(codec.head, Without(ps, {"illegal"})))
            /\ \A f \in {"block_size", "timeout", "transfer_size"} :
                   r.packet.opts[f] # None
                   <=> \E i \in 1..Len(ps) :
                          ps[i].class = "legal" /\ FieldOf(ps[i].name) = f

\* blksize=7 came with timeout=1: the request was decoded, without a block
\* size and with the timeout.
C26_Witness ==
    /\ codec.op = "request"
    /\ codec.pairs = <<OptPair(B_blksize, to_string(7), "illegal"),
                       OptPair(B_timeout, to_string(1), "legal")>>
    /\ codec.result.ok
    /\ codec.result.packet.opts.block_size = None
    /\ codec.result.packet.opts.timeout = 1


\* What init answers to the options ropts of a request like head.
OackOf(head, ropts, file_size) ==
    IF head.t = "Rrq" THEN rrq_build_oack_opts(config, ropts, file_size)
    ELSE wrq_build_oack_opts(config, ropts)

\* C27: a pair with an unknown name never makes a request fail to decode and
\* never appears in the OACK: the request decodes to what it decodes to
\* without the pair, its OACK is the OACK of the request without the pair, and
\* a request with unknown options only gets no OACK.
C27_UnknownOptionIgnored ==
    (RequestDecoded /\ HasClass(codec.pairs, "unknown")
                    /\ ~HasClass(codec.pairs, "malformed")) =>
        LET ps == codec.pairs
            r == codec.result
            bare == from_bytes(RequestBytes(codec.head, Without(ps, {"unknown"})))
        IN  /\ r.ok
            /\ r = bare
            /\ codec.op = "oack" =>
                  /\ codec.oack = OackOf(codec.head, bare.packet.opts, codec.file_size)
                  /\ (\A i \in 1..Len(ps) : ps[i].class = "unknown")
                         => codec.oack = NoOack

\* A request with an unknown option and a block size was answered with an OACK
\* for the block size.
C27_Witness ==
    /\ codec.op = "oack"
    /\ codec.pairs = <<OptPair(T_x \o T_a, T_x, "unknown"),
                       OptPair(B_blksize, to_string(8), "legal")>>
    /\ codec.oack # NoOack
    /\ codec.oack.block_size = 8

\* A request with two unknown options got no OACK.
C27_WitnessOnlyUnknown ==
    /\ codec.op = "oack"
    /\ Len(codec.pairs) = 2
    /\ \A i \in 1..2 : codec.pairs[i].class = "unknown"
    /\ codec.oack = NoOack


\* The places in ps of the pairs that name the field f, and of those among
\* them with a legal value.
Occurrences(ps, f) == {i \in 1..Len(ps) : FieldOf(ps[i].name) = f}

LegalOccurrences(ps, f) == {i \in Occurrences(ps, f) : ps[i].class = "legal"}

First(S) == CHOOSE i \in S : \A j \in S : i <= j

\* What a pair sets its option to: its number if the value is legal.
ValueOf(pair) == IF pair.class = "legal" THEN from_str(pair.value, IntMax) ELSE None

\* C28: when an option name occurs more than once in a request, the decoded
\* options keep the value of the first occurrence that has a legal value and
\* ignore every other occurrence; the option is absent when no occurrence has
\* a legal value.
C28_FirstLegalOccurrenceWins ==
    (RequestDecoded /\ ~HasClass(codec.pairs, "malformed")) =>
        \A f \in {"block_size", "timeout", "transfer_size"} :
            Cardinality(Occurrences(codec.pairs, f)) >= 2 =>
                /\ codec.result.ok
                /\ codec.result.packet.opts[f] =
                       IF LegalOccurrences(codec.pairs, f) = {} THEN None
                       ELSE ValueOf(codec.pairs[First(LegalOccurrences(codec.pairs, f))])

\* blksize=8 came before blksize=65464 and 8 was kept.
C28_Witness ==
    /\ codec.op = "request"
    /\ codec.pairs = <<OptPair(B_blksize, to_string(8), "legal"),
                       OptPair(B_blksize, to_string(65464), "legal")>>
    /\ codec.result.ok
    /\ codec.result.packet.opts.block_size = 8

\* C28 as stated: the decoded options keep the value of the first occurrence
\* of the name, whatever the values of the occurrences are.
C28_FirstOccurrenceWins ==
    (RequestDecoded /\ ~HasClass(codec.pairs, "malformed")) =>
        \A f \in {"block_size", "timeout", "transfer_size"} :
            Cardinality(Occurrences(codec.pairs, f)) >= 2 =>
                /\ codec.result.ok
                /\ codec.result.packet.opts[f] =
                       ValueOf(codec.pairs[First(Occurrences(codec.pairs, f))])


----------------------------------------------------------------------------
(* The directory handlers: handlers/dir.rs and handlers/dir_ro.rs *)

\* The longest requested path.
MaxPathLen == 5

\* Paths are texts: "/" separates, "." and ".." are the special names.
Sep == 47
Dot == 46

\* The served directory, canonical: "/d".
ServedDir == <<Sep, 100>>

HasSep(s) == \E i \in 1..Len(s) : s[i] = Sep

FirstSep(s) == CHOOSE i \in 1..Len(s) : s[i] = Sep /\ \A j \in 1..(i - 1) : s[j] # Sep

LastSep(s) == CHOOSE i \in 1..Len(s) : s[i] = Sep /\ \A j \in (i + 1)..Len(s) : s[j] # Sep

\* std::path::Component.
RootDir == [k |-> "RootDir"]
CurDir == [k |-> "CurDir"]
ParentDir == [k |-> "ParentDir"]
Normal(name) == [k |-> "Normal", name |-> name]

\* Components::parse_single_component: no component for "" and ".".
IsNoComponent(comp) == comp = <<>> \/ comp = <<Dot>>

parse_single_component(comp) ==
    IF comp = <<Dot, Dot>> THEN ParentDir ELSE Normal(comp)

RECURSIVE body_components(_)
\* Components::next in State::Body, to the end of the path.
body_components(s) ==
    IF s = <<>> THEN <<>>
    ELSE LET comp == IF HasSep(s) THEN SubSeq(s, 1, FirstSep(s) - 1) ELSE s
             after == IF HasSep(s) THEN Drop(s, FirstSep(s)) ELSE <<>>
         IN  (IF IsNoComponent(comp) THEN <<>> ELSE <<parse_single_component(comp)>>)
             \o body_components(after)

has_root(s) == s # <<>> /\ s[1] = Sep

\* Components::include_cur_dir: a relative path that starts with "." and then
\* ends or goes on with a separator.
include_cur_dir(s) ==
    /\ ~has_root(s)
    /\ s # <<>> /\ s[1] = Dot
    /\ (Len(s) = 1 \/ s[2] = Sep)

\* Path::components, on a system without path prefixes.
components(s) ==
    IF has_root(s) THEN <<RootDir>> \o body_components(Drop(s, 1))
    ELSE IF include_cur_dir(s) THEN <<CurDir>> \o body_components(Drop(s, 1))
    ELSE body_components(s)

RECURSIVE trim_left(_)
\* Components::trim_left: the separators and "." names before the first
\* component are dropped.
trim_left(s) ==
    IF s = <<>> THEN s
    ELSE LET comp == IF HasSep(s) THEN SubSeq(s, 1, FirstSep(s) - 1) ELSE s
         IN  IF ~IsNoComponent(comp) THEN s
             ELSE IF HasSep(s) THEN trim_left(Drop(s, FirstSep(s))) ELSE <<>>

RECURSIVE trim_right(_)
\* Components::trim_right.
trim_right(s) ==
    IF s = <<>> THEN s
    ELSE LET comp == IF HasSep(s) THEN Drop(s, LastSep(s)) ELSE s
         IN  IF ~IsNoComponent(comp) THEN s
             ELSE IF HasSep(s) THEN trim_right(SubSeq(s, 1, LastSep(s) - 1)) ELSE <<>>

\* Path::strip_prefix for a base of one component, "/" or "./": iter_after
\* compares the first components, as_path gives what is left.
strip_prefix(path, base) ==
    IF components(path) # <<>> /\ components(base) = <<components(path)[1]>>
    THEN [ok |-> TRUE, path |-> trim_right(trim_left(Drop(path, 1)))]
    ELSE [ok |-> FALSE]

\* Path::join of a relative path.
join(dir, path) ==
    IF dir[Len(dir)] = Sep THEN dir \o path ELSE dir \o <<Sep>> \o path

Denied(e) == [ok |-> FALSE, err |-> e]

Opened(path) == [ok |-> TRUE, path |-> path]

\* path.strip_prefix("/").or_else(|_| path.strip_prefix("./")).unwrap_or(path)
stripped(path) ==
    IF strip_prefix(path, <<Sep>>).ok THEN strip_prefix(path, <<Sep>>).path
    ELSE IF strip_prefix(path, <<Dot, Sep>>).ok THEN strip_prefix(path, <<Dot, Sep>>).path
    ELSE path

\* The test for ".." left out.
secure_path_no_parent_test(restricted_dir, path) ==
    LET p == stripped(path)
    IN  IF components(p) = <<>> \/ components(p)[1].k # "Normal"
            THEN Denied("PermissionDenied")
        ELSE Opened(join(restricted_dir, p))

secure_path(restricted_dir, path) ==
    LET p == stripped(path)
    IN  IF \E i \in 1..Len(components(p)) : components(p)[i] = ParentDir
            THEN Denied("PermissionDenied")
        ELSE IF components(p) = <<>> \/ components(p)[1].k # "Normal"
            THEN Denied("PermissionDenied")
        ELSE Opened(join(restricted_dir, p))

\* The same tests in DirRoHandler::read_req_open, which answers FileNotFound.
dir_ro_path(dir, path) ==
    LET p == stripped(path)
    IN  IF \E i \in 1..Len(components(p)) : components(p)[i] = ParentDir
            THEN Denied("FileNotFound")
        ELSE IF components(p) = <<>> \/ components(p)[1].k # "Normal"
            THEN Denied("FileNotFound")
        ELSE Opened(join(dir, p))

\* read_req_open of both handlers; is_file and opens are what the file system
\* says of the path.
read_req_open(handler, path, is_file, opens) ==
    IF handler.type = "DirHandler" /\ ~handler.serve_rrq THEN Denied("IllegalOperation")
    ELSE LET r == IF handler.type = "DirHandler" THEN secure_path(ServedDir, path)
                  ELSE dir_ro_path(ServedDir, path)
         IN  IF ~r.ok THEN r
             ELSE IF ~is_file THEN Denied("FileNotFound")
             ELSE IF ~opens THEN Denied("Io")
             ELSE r

\* DirHandler::write_req_open.
write_req_open(handler, path, opens) ==
    IF ~handler.serve_wrq THEN Denied("IllegalOperation")
    ELSE LET r == secure_path(ServedDir, path)
         IN  IF ~r.ok THEN r
             ELSE IF ~opens THEN Denied("Io")
             ELSE r

DirRoHandler_new == [type |-> "DirRoHandler", serve_rrq |-> TRUE, serve_wrq |-> FALSE]

Handlers ==
    {DirHandler_new(flags) : flags \in {"ReadOnly", "WriteOnly", "ReadWrite"}}
    \cup {DirRoHandler_new}

\* The requested paths: every text of "/", "." and "a" up to MaxPathLen.
Paths == UNION {[1..n -> {Sep, Dot, 97}] : n \in 0..MaxPathLen}

ReadReqOpen(path, is_file, opens) ==
    /\ dir_req.op = "none"
    /\ dir_req' = [handler |-> dir_req.handler, op |-> "read_req_open", path |-> path,
                   result |-> read_req_open(dir_req.handler, path, is_file, opens)]
    /\ UNCHANGED <<config, reqs_in_progress, serve_state, handler_lock, sess, futs,
                   wire, last_req, tracing, codec, recv_req_futs, ack_call>>

WriteReqOpen(path, opens) ==
    /\ dir_req.op = "none"
    /\ dir_req.handler.type = "DirHandler"
    /\ dir_req' = [handler |-> dir_req.handler, op |-> "write_req_open", path |-> path,
                   result |-> write_req_open(dir_req.handler, path, opens)]
    /\ UNCHANGED <<config, reqs_in_progress, serve_state, handler_lock, sess, futs,
                   wire, last_req, tracing, codec, recv_req_futs, ack_call>>

InitDir ==
    /\ config \in {c \in BuilderConfigs : c.max_send_retries = 0}
    /\ reqs_in_progress = {}
    /\ serve_state = "running"
    /\ handler_lock = NoPeer
    /\ sess = [p \in Peers |-> IdleSession]
    /\ futs = [p \in Peers |-> 0]
    /\ wire = [p \in Peers |-> <<>>]
    /\ last_req = NoReq
    /\ tracing = TRUE
    /\ codec = NoDatagram
    /\ dir_req \in {NoOpen(h) : h \in Handlers}
    /\ recv_req_futs = 1
    /\ ack_call = NoAckCall

NextDir ==
    \/ \E path \in Paths, is_file \in BOOLEAN, opens \in BOOLEAN :
           ReadReqOpen(path, is_file, opens)
    \/ \E path \in Paths, opens \in BOOLEAN : WriteReqOpen(path, opens)

SpecDir == InitDir /\ [][NextDir]_vars


\* What a handler call is about.
Called == dir_req.op # "none"

Serves(handler, op) ==
    IF op = "read_req_open" THEN handler.serve_rrq ELSE handler.serve_wrq

HasParentDir(path) == \E i \in 1..Len(components(path)) : components(path)[i] = ParentDir

\* The components of a path after its root or its leading "." .
AfterStart(path) ==
    IF components(path) # <<>> /\ components(path)[1] \in {RootDir, CurDir}
    THEN Tail(components(path)) ELSE components(path)

\* A path made of the served directory and normal names only, one at least.
UnderServedDir(path) ==
    LET c == components(path)
        d == components(ServedDir)
    IN  /\ Len(c) > Len(d)
        /\ SubSeq(c, 1, Len(d)) = d
        /\ \A i \in (Len(d) + 1)..Len(c) : c[i].k = "Normal"

\* The error a handler refuses a path with.
Refusal(handler) ==
    IF handler.type = "DirHandler" THEN "PermissionDenied" ELSE "FileNotFound"

\* C29: for every requested path a directory handler either rejects the
\* request or opens a path made of the served directory followed by normal
\* names only.  A DirHandler whose mode does not serve the kind of request
\* rejects it with IllegalOperation whatever the path; otherwise a path with a
\* ".." component, and a path with no normal name after its root or leading
\* ".", is rejected, with PermissionDenied by DirHandler and with FileNotFound
\* by DirRoHandler.
C29_RejectedOrUnderServedDir ==
    Called =>
        LET h == dir_req.handler
            r == dir_req.result
            path == dir_req.path
        IN  /\ r.ok => /\ UnderServedDir(r.path)
                       /\ Serves(h, dir_req.op)
                       /\ ~HasParentDir(path)
            /\ ~Serves(h, dir_req.op) => r = Denied("IllegalOperation")
            /\ (Serves(h, dir_req.op)
                  /\ (HasParentDir(path) \/ AfterStart(path) = <<>>
                         \/ AfterStart(path)[1].k # "Normal"))
                  => r = Denied(Refusal(h))

\* A read-only DirHandler refused "/a/.." with PermissionDenied.
C29_Witness ==
    /\ dir_req.op = "read_req_open"
    /\ dir_req.handler = DirHandler_new("ReadOnly")
    /\ dir_req.path = <<Sep, 97, Sep, Dot, Dot>>
    /\ dir_req.result = Denied("PermissionDenied")

\* "/./a" was opened for writing as "/d/a".
C29_WitnessOpened ==
    /\ dir_req.op = "write_req_open"
    /\ dir_req.path = <<Sep, Dot, Sep, 97>>
    /\ dir_req.result = Opened(<<Sep, 100, Sep, 97>>)

\* The path without one leading "/" or "./", as a text.
StripOne(path) ==
    IF path # <<>> /\ path[1] = Sep THEN Drop(path, 1)
    ELSE IF Len(path) >= 2 /\ path[1] = Dot /\ path[2] = Sep THEN Drop(path, 2)
    ELSE path

\* C29 as stated: every path with a ".." component is rejected with
\* PermissionDenied, and so is every path whose first component after
\* stripping one leading "/" or "./" is not a normal name; a handler that
\* does not serve the kind of request rejects it with IllegalOperation, which
\* is taken to come first.
C29_SecurePathAsStated ==
    Called =>
        LET h == dir_req.handler
            r == dir_req.result
            path == dir_req.path
        IN  /\ r.ok => UnderServedDir(r.path)
            /\ (Serves(h, dir_req.op) /\ HasParentDir(path))
                  => r = Denied("PermissionDenied")
            /\ (Serves(h, dir_req.op)
                  /\ (components(StripOne(path)) = <<>>
                         \/ components(StripOne(path))[1].k # "Normal"))
                  => r = Denied("PermissionDenied")
            /\ ~Serves(h, dir_req.op) => r = Denied("IllegalOperation")


----------------------------------------------------------------------------
(* Size probes: read requests with tsize=0 *)

ProbeConfigs ==
    {c \in AllConfigs :
        /\ c.block_size_limit = None
        /\ c.window_size_limit = None
        /\ ~c.ignore_client_window_size}

ProbeReqOpts == {o \in AllReqOpts : o.transfer_size = 0 /\ o.window_size = None}

InitProbe == InitWith(ProbeConfigs) /\ tracing = TRUE

\* One peer probes the size of a file, empty or not, whose size the handler
\* tells or does not tell; it acknowledges, aborts with an ERROR or keeps
\* silent, and the reader may fail.
NextProbe ==
    \/ /\ FirstPeer \notin reqs_in_progress
       /\ wire[FirstPeer] = <<>>
       /\ \E d \in Reqs({"RRQ"}, ProbeReqOpts) : RecvReq(FirstPeer, d)
    \/ LockHandler(FirstPeer)
    \/ \E len \in {0, NegFileLen}, known \in BOOLEAN : OpenRead(FirstPeer, len, known, TRUE)
    \/ FillDataBlock(FirstPeer)
    \/ FillDataBlockFail(FirstPeer)
    \/ SendWindow(FirstPeer)
    \/ \E id \in AckIds(sess[FirstPeer]) : RecvAck(FirstPeer, id)
    \/ \E e \in PeerErrors : RecvClientError(FirstPeer, e)
    \/ Timeout(FirstPeer)
    \/ SendError(FirstPeer, TRUE)
    \/ ReqFinishedOk(FirstPeer)

SpecProbe == InitProbe /\ [][NextProbe]_vars

\* The session's OACK tells the size of the file.
ProbeAnswered(s) ==
    s.kind = "RRQ" /\ s.oack_opts # NoOack /\ s.oack_opts.transfer_size # None

\* The request carried tsize=0 and the session has an OACK for it.
ProbeAsked(s) ==
    s.kind = "RRQ" /\ s.req.transfer_size = 0 /\ s.oack_opts # NoOack

\* The OACK was sent and ACK(0) was received after it.
OackAcked(w) ==
    \E i \in Sent(w, "session", "OACK") :
        \E j \in (i + 1)..Len(w) : w[j] = Rx(AckPkt(0))

\* fill_data_block has returned a block.
HasRead(s) == s.window # <<>> \/ s.pos > 0 \/ s.is_last_block

\* C30: when the session's OACK carries tsize (the request carried tsize 0 and
\* the handler told the size), the engine sends the OACK and receives ACK(0)
\* before it reads from the reader: every read, failed or not, comes after
\* them, and as long as ACK(0) has not come, whether the peer aborts or keeps
\* silent, nothing has been read.
C30_ProbeAnsweredBeforeRead ==
    [][\A p \in Peers :
          /\ ((FillDataBlock(p) \/ FillDataBlockFail(p)) /\ ProbeAnswered(sess[p]))
                => OackAcked(wire[p])
          /\ (ProbeAnswered(sess[p]) /\ ~OackAcked(wire[p]))' => ~HasRead(sess[p])']_vars

\* The peer aborted after the OACK that told the size, and nothing was read.
C30_Witness ==
    \E p \in Peers :
        /\ ProbeAnswered(sess[p])
        /\ sess[p].file_len > 0
        /\ sess[p].pc = "done"
        /\ Len(wire[p]) = 2
        /\ wire[p][1] = Tx("session", OAckPkt(sess[p].oack_opts))
        /\ wire[p][2].dir = "rx" /\ wire[p][2].pkt.t = "ERROR"
        /\ ~HasRead(sess[p])

\* The OACK that told the size was acknowledged and the file was then read.
C30_WitnessRead ==
    \E p \in Peers :
        /\ ProbeAnswered(sess[p])
        /\ OackAcked(wire[p])
        /\ sess[p].pos > 0

\* C30 as stated: whenever the request carried tsize 0 and the session replies
\* with an OACK, every read comes after the OACK and ACK(0).
C30_OackBeforeReadForEveryProbe ==
    [][\A p \in Peers :
          /\ ((FillDataBlock(p) \/ FillDataBlockFail(p)) /\ ProbeAsked(sess[p]))
                => OackAcked(wire[p])
          /\ (ProbeAsked(sess[p]) /\ ~OackAcked(wire[p]))' => ~HasRead(sess[p])']_vars

----------------------------------------------------------------------------
(* The first read and the OACK *)

\* The session replies with an OACK that tells no size.
NonProbeOack(s) ==
    s.kind = "RRQ" /\ s.oack_opts # NoOack /\ s.oack_opts.transfer_size = None

\* The first fill_data_block of the session returned an error.
FirstReadFailed(s) ==
    NonProbeOack(s) /\ s.err = "Io" /\ ~HasRead(s) /\ s.pc \in {"send_error", "done"}

\* C31: a read request whose OACK is no reply to a size probe has its first
\* block read before the OACK is sent; when that first read fails, the session
\* sends one ERROR and nothing else, neither OACK nor DATA.
C31_FirstBlockReadBeforeOack ==
    \A p \in Peers :
        LET s == sess[p]
            w == wire[p]
        IN  NonProbeOack(s) =>
               /\ Sent(w, "session", "OACK") # {} => HasRead(s)
               /\ s.pc = "send_oack" => HasRead(s)
               /\ FirstReadFailed(s) =>
                     /\ w \in {<<>>, <<Tx("session", ErrorPkt(s.err))>>}
                     /\ s.pc = "done" => w = <<Tx("session", ErrorPkt(s.err))>>

\* The first read of a session with an OACK for blksize failed and the ERROR
\* went out.
C31_Witness ==
    \E p \in Peers :
        /\ FirstReadFailed(sess[p])
        /\ sess[p].oack_opts.block_size # None
        /\ sess[p].pc = "done"
        /\ wire[p] = <<Tx("session", ErrorPkt("Io"))>>

\* The OACK of such a session went out after the first block was read.
C31_WitnessOack ==
    \E p \in Peers :
        /\ NonProbeOack(sess[p])
        /\ sess[p].pos > 0
        /\ wire[p] = <<Tx("session", OAckPkt(sess[p].oack_opts))>>

----------------------------------------------------------------------------
(* Read requests with windows, and every datagram a session may receive *)

\* A block size limit of 3, windows of 1, 2 and 3 blocks, every retry cap.
AckConfigs ==
    {c \in RrqConfigs :
        /\ c.block_size_limit # None
        /\ ~c.ignore_client_timeout
        /\ ~c.ignore_client_block_size
        /\ ~c.ignore_client_window_size}

\* Read requests with blksize, with and without windowsize.
AckReqOpts ==
    {o \in AllReqOpts :
        o.block_size # None /\ o.timeout = None /\ o.transfer_size = None}

InitAck == InitWith(AckConfigs) /\ tracing = TRUE

\* The ACKs a peer may send to the session, and the other datagrams.
AckDatagrams(s) ==
    {AckPkt(id) : id \in AckIds(s)} \cup SessionPkts
        \cup {DataPkt(s.window_base, 0, 0), ReqPkt("RRQ", OptsDefault)}
        \cup {ErrorPkt(e) : e \in PeerErrors}

\* One peer reads a file of one block or of several; it sends ACKs of every id
\* around the window, other datagrams and ERRORs, or keeps silent; the
\* datagrams of another peer reach the session's socket too.
NextAck ==
    \/ /\ FirstPeer \notin reqs_in_progress
       /\ \E d \in Reqs({"RRQ"}, AckReqOpts) : RecvReq(FirstPeer, d)
    \/ LockHandler(FirstPeer)
    \/ \E len \in {1, MaxFileLen} : OpenRead(FirstPeer, len, TRUE, TRUE)
    \/ FillDataBlock(FirstPeer)
    \/ SendWindow(FirstPeer)
    \/ \E id \in AckIds(sess[FirstPeer]) : RecvAck(FirstPeer, id)
    \/ \E from \in Peers, d \in AckDatagrams(sess[FirstPeer]) :
           RecvIgnored(FirstPeer, from, d)
    \/ \E e \in PeerErrors : RecvClientError(FirstPeer, e)
    \/ Timeout(FirstPeer)
    \/ SendError(FirstPeer, TRUE)
    \/ ReqFinishedOk(FirstPeer)

SpecAck == InitAck /\ [][NextAck]_vars

\* The ids a session that has sent an OACK or a window awaits an ACK for.
Expected(s) ==
    IF s.pc = "recv_oack" THEN {0}
    ELSE {s.window[i].id : i \in 1..Len(s.window)}

\* The session awaits the acknowledgement of what it has sent.
AwaitsAck(s) ==
    s.kind = "RRQ" /\ Awaiting(s) /\ (s.pc = "recv_oack" \/ s.window # <<>>)

\* send_window has returned Ok: the window has moved, the loop is at its head
\* again, or the transfer is done.
Advanced(s, t) ==
    \/ t.window_base # s.window_base
    \/ t.window # s.window
    \/ t.pc = "fill"
    \/ t.pc = "send" /\ t.attempt = 0
    \/ t.pc = "done" /\ t.err = "none"
    \/ t.pc = "panicked"

\* What the claim says a session discards: datagrams of another address,
\* undecodable ones, packets that are no ACK (an ERROR unless its code is
\* OptionNegotiationFailed), and ACKs of another id.
Discarded(s, p, from, d) ==
    \/ from # p
    \/ d = InvalidPkt
    \/ d.t \notin {"ACK", "ERROR"}
    \/ d.t = "ERROR" /\ d.err # "OptionNegotiationFailed"
    \/ d.t = "ACK" /\ d.id \notin Expected(s)

\* C32: while a read-request session awaits the acknowledgement of what it has
\* sent, it advances only on an ACK of its peer with id 0 after an OACK and
\* with the id of a DATA block of the window after DATA; a datagram of another
\* address, an undecodable one, a packet that is no ACK (an ERROR with another
\* code than OptionNegotiationFailed too) and an ACK of another id are
\* received without any change of the session and without a send.
C32_OnlyMatchingAckAdvances ==
    [][\A p \in Peers :
          LET s == sess[p]
          IN  AwaitsAck(s) =>
                 /\ Advanced(s, sess'[p]) =>
                       \E id \in Expected(s) : wire'[p] = wire[p] \o <<Rx(AckPkt(id))>>
                 /\ \A id \in AckIds(s) : (ENABLED RecvAck(p, id)) <=> id \in Expected(s)
                 /\ \A from \in Peers, d \in AckDatagrams(s) :
                       Discarded(s, p, from, d) =>
                          /\ ENABLED RecvIgnored(p, from, d)
                          /\ RecvIgnored(p, from, d) => UNCHANGED <<sess, wire>>
                          /\ from = p /\ d.t = "ACK" => ~ENABLED RecvAck(p, d.id)
                          /\ from = p /\ d.t = "ERROR" => ~ENABLED RecvClientError(p, d.err)]_vars

\* A session with a window of three blocks discarded an ACK of the id before
\* the window and then took the ACK of its second block.
C32_Witness ==
    \E p \in Peers :
        LET s == sess[p]
            w == wire[p]
        IN  /\ s.kind = "RRQ" /\ s.window_size = 3
            /\ s.window_base = 3
            /\ Len(w) >= 5
            /\ w[Len(w)] = Rx(AckPkt(2))
            /\ w[Len(w) - 1].dir = "tx" /\ w[Len(w) - 1].pkt.id = 3

\* A block of the window is on the wire already.
AlreadySent(s, w) ==
    \E i \in 1..Len(s.window), j \in 1..Len(w) : w[j] = Tx("session", s.window[i])

\* The ids of AckIds(s) that lie before the window: blocks acknowledged already.
AckedIds(s) == {id \in AckIds(s) : id < s.window_base}

\* The last datagram of w is an ACK the session accepted.
LastIsAck(w) == w # <<>> /\ w[Len(w)].dir = "rx" /\ w[Len(w)].pkt.t = "ACK"

\* What holds of an ACK for an id before the window base: recv_ack does not
\* return on it, the receive loop goes on, nothing is sent, nothing changes.
DuplicateAckDiscarded(p) ==
    LET s == sess[p]
    IN  (s.kind = "RRQ" /\ s.pc = "recv" /\ s.window # <<>>) =>
           \A id \in AckedIds(s) :
              /\ ~ENABLED RecvAck(p, id)
              /\ ENABLED RecvIgnored(p, p, AckPkt(id))
              /\ RecvIgnored(p, p, AckPkt(id)) => UNCHANGED <<sess, wire>>

\* C37: an ACK for a block acknowledged already (an id before the window base)
\* is discarded: it causes no send and no change of the window.  A block that
\* is on the wire already is sent again after the timeout has expired, or, in
\* a window of more than one block, after an ACK that acknowledged the blocks
\* before it only.
C37_DuplicateAckDiscarded ==
    [][\A p \in Peers :
          LET s == sess[p]
          IN  /\ DuplicateAckDiscarded(p)
              /\ (SendWindow(p) /\ s.pc = "send" /\ AlreadySent(s, wire[p])) =>
                    \/ s.attempt > 0
                    \/ s.window_size > 1 /\ LastIsAck(wire[p])]_vars

\* A session with a window of three blocks took ACK(1) for its first window and
\* sent the blocks 2 and 3 again with block 4, without a timeout; it awaits the
\* acknowledgement of block 2, and ACK(1) is a duplicate now.
C37_Witness ==
    \E p \in Peers :
        LET s == sess[p]
            w == wire[p]
        IN  /\ s.kind = "RRQ" /\ s.pc = "recv" /\ s.attempt = 0
            /\ s.window_base = 2 /\ Len(s.window) = 2
            /\ 1 \in AckedIds(s)
            /\ Cardinality({j \in 1..Len(w) : w[j] = Tx("session", s.window[1])}) = 2

\* C37 as stated: a block is sent again only after the timeout has expired.
C37_RetransmissionOnlyOnTimeout ==
    [][\A p \in Peers :
          LET s == sess[p]
          IN  /\ DuplicateAckDiscarded(p)
              /\ (SendWindow(p) /\ s.pc = "send" /\ AlreadySent(s, wire[p])) =>
                    s.attempt > 0]_vars

----------------------------------------------------------------------------
(* The acknowledgement and the write *)

\* C33: in a write-request session ACK(n) is sent only after the payload of
\* DATA(n) has been written to the sink; when the write fails, ACK(n) is not
\* on the wire and the session ends with an ERROR.
C33_AckAfterWrite ==
    \A p \in Peers :
        LET s == sess[p]
            w == wire[p]
        IN  s.kind = "WRQ" =>
               /\ \A i \in Sent(w, "session", "ACK") :
                     w[i].pkt.id >= 1 => Len(s.sink) >= w[i].pkt.id
               /\ (s.pc \in {"send_error", "done"} /\ s.err = "Io" /\ s.data # InvalidPkt
                      /\ Len(s.sink) < s.block_id) =>
                     \A i \in Sent(w, "session", "ACK") : w[i].pkt.id # s.block_id

----------------------------------------------------------------------------
(* The handler mutex *)

\* The tasks whose call of read_req_open or write_req_open has not returned.
Opening == {p \in Peers : sess[p].pc = "open"}

\* The session has a socket and sends or receives on it.
InTransfer(s) ==
    s.pc \in {"fill_first", "fill", "send_oack", "send", "recv_oack", "recv",
              "w_send_first", "w_recv", "w_write", "send_error"}

\* C34: at most one open call of the handler is in progress, the task in it
\* is the one that holds the handler mutex, and the mutex is released before
\* the session sends or receives a datagram: a session in its transfer never
\* holds it, so a task that waits for the mutex can take it whenever no open
\* is in progress, whatever transfers are running or stalled.
C34_OnlyOpenHoldsTheMutex ==
    /\ Cardinality(Opening) <= 1
    /\ \A p \in Peers :
          /\ handler_lock = p <=> p \in Opening
          /\ (InTransfer(sess[p]) \/ sess[p].pc = "done") => handler_lock # p
          /\ sess[p].pc \in {"spawned", "open"} => wire[p] = <<>>
          /\ (sess[p].pc = "spawned" /\ Opening = {}) => ENABLED LockHandler(p)

\* One peer's transfer awaits an acknowledgement while the other peer's task
\* is in its open call.
C34_Witness ==
    \E p, q \in Peers :
        /\ p # q
        /\ sess[p].pc \in {"recv", "w_recv"} /\ wire[p] # <<>>
        /\ sess[q].pc = "open" /\ handler_lock = q

\* Two peers are in their transfers at the same time.
C34_WitnessBoth ==
    \E p, q \in Peers :
        /\ p # q
        /\ sess[p].pc = "recv" /\ sess[q].pc = "w_recv"

----------------------------------------------------------------------------
(* ERROR datagrams *)

\* The positions of w that hold an ERROR sent to the peer, by its session or by
\* serve.
ErrorsSent(w) == {i \in 1..Len(w) : w[i].dir = "tx" /\ w[i].pkt.t = "ERROR"}

\* C35: over the life of a session at most one ERROR is sent to its peer, by
\* the session or by serve; it is the last datagram of the session and is not
\* sent again; whether its send succeeds changes neither how the task ends
\* nor that serve releases the peer's slot.
C35_AtMostOneErrorAndItIsLast ==
    [][\A p \in Peers :
          LET s == sess[p]
              w == wire[p]
          IN  /\ Cardinality(ErrorsSent(w')) <= 1
              /\ ErrorsSent(w) # {} => (wire'[p] = w \/ sess'[p].pc = "spawned")
              /\ ErrorsSent(w') # {} => ErrorsSent(w') = {Len(w')}
              /\ (s.pc = "send_error" /\ sess'[p] # s /\ serve_state' = "running") =>
                    /\ sess'[p] = Finished(s, "ok", s.err)
                    /\ wire'[p] \in {w, w \o <<Tx("session", ErrorPkt(s.err))>>}
              /\ (s.pc = "done" /\ s.result = "err" /\ sess'[p] # s
                     /\ serve_state' = "running") =>
                    /\ p \notin reqs_in_progress'
                    /\ futs'[p] = 0
                    /\ sess'[p] = Reaped(s)
                    /\ wire'[p] \in {w, w \o <<Tx("dispatcher", ErrorPkt(error_into(s.err)))>>}]_vars

\* A session ended with an ERROR whose send failed: nothing of it is on the
\* wire after the datagrams of the transfer, the task returned Ok, and serve
\* released the slot.
C35_Witness ==
    \E p \in Peers :
        /\ sess[p].pc = "none" /\ sess[p].result = "ok"
        /\ sess[p].err = "MaxSendRetriesReached"
        /\ wire[p] # <<>> /\ ErrorsSent(wire[p]) = {}
        /\ p \notin reqs_in_progress

\* A session ended with its ERROR as the last datagram on the wire.
C35_WitnessSent ==
    \E p \in Peers :
        /\ sess[p].pc = "none" /\ sess[p].result = "ok"
        /\ Len(wire[p]) >= 2
        /\ wire[p][Len(wire[p])] = Tx("session", ErrorPkt("MaxSendRetriesReached"))

----------------------------------------------------------------------------
(* The futures of serve *)

\* The steps of the dispatcher that change the active set.
DispatcherStep(p) ==
    \/ \E d \in Reqs({"RRQ", "WRQ"}, PlainReqOpts) \cup StrayPkts : RecvReq(p, d)
    \/ ReqFinished(p)

\* C36: between two iterations of serve's loop exactly one recv_req future is
\* pending, and the req_finished futures are one for each peer of
\* reqs_in_progress and none for any other peer; reqs_in_progress changes in
\* steps of the dispatcher only, never in a step of a session's task.
C36_FuturesMatchActiveSet ==
    /\ [](serve_state = "running" =>
             /\ recv_req_futs = 1
             /\ \A p \in Peers : futs[p] = (IF p \in reqs_in_progress THEN 1 ELSE 0))
    /\ [][/\ reqs_in_progress' # reqs_in_progress => \E p \in Peers : DispatcherStep(p)
          /\ \A p \in Peers :
                (LockHandler(p) \/ SessionStep(p)) =>
                    /\ reqs_in_progress' = reqs_in_progress
                    /\ futs' = futs /\ recv_req_futs' = recv_req_futs]_vars

\* Both peers are in the active set, the task of one has returned and its
\* future has not been taken yet, the other's transfer is running.
C36_Witness ==
    \E p, q \in Peers :
        /\ serve_state = "running" /\ recv_req_futs = 1
        /\ reqs_in_progress = {p, q} /\ p # q
        /\ futs[p] = 1 /\ futs[q] = 1
        /\ sess[p].pc = "done" /\ sess[q].pc \in {"recv", "w_recv"}
        /\ last_req.verdict = "stray"


----------------------------------------------------------------------------
(* A peer that stops responding *)

\* A session that waits for its peer under io_timeout.
WaitsForPeer(s) == s.pc \in {"recv_oack", "recv", "w_recv"}

\* io_timeout expires in the receive loop of session p.
TimerExpires(p) == Timeout(p) \/ WrqTimeout(p, TRUE)

\* C38: a session that waits for its peer ends and its peer is removed from the
\* set in progress, unless serve returned first.  While it waits its timer can
\* expire, whatever datagrams the receive loop discards; it has counted at most
\* max_send_retries timeouts for the current window or block, a timeout is
\* counted or, being the one after max_send_retries, ends the session with
\* MaxSendRetriesReached, and while serve runs the count changes only by a
\* timeout and starts afresh only after a datagram of the peer was accepted.
C38_SilentPeerSessionEnds ==
    /\ \A p \in Peers :
          (WaitsForPeer(sess[p]) /\ p \in reqs_in_progress)
              ~> ((sess[p].pc = "none" /\ p \notin reqs_in_progress) \/ serve_state = "stopped")
    /\ [](\A p \in Peers :
             WaitsForPeer(sess[p]) =>
                 /\ sess[p].attempt <= sess[p].max_send_retries
                 /\ ENABLED TimerExpires(p)
                 /\ \A from \in Peers :
                        (ENABLED RecvIgnored(p, from, AckPkt(0)))
                            \/ (ENABLED WrqRecvIgnored(p, from, AckPkt(0))))
    /\ [][\A p \in Peers :
             LET s == sess[p]
                 t == sess'[p]
             IN  WaitsForPeer(s) /\ serve_state' = "running" =>
                     /\ TimerExpires(p) =>
                           IF s.attempt < s.max_send_retries
                           THEN t.attempt = s.attempt + 1 /\ t.err = s.err
                           ELSE t.pc = "send_error" /\ t.err = "MaxSendRetriesReached"
                     /\ t.attempt > s.attempt => TimerExpires(p)
                     /\ t.attempt < s.attempt =>
                           /\ Len(wire'[p]) > Len(wire[p])
                           /\ wire'[p][Len(wire[p]) + 1].dir = "rx"
                     /\ t.err = "MaxSendRetriesReached" =>
                           TimerExpires(p) /\ s.attempt = s.max_send_retries]_vars

\* A read session and a write session whose peers never answered: each gave up
\* after max_send_retries + 1 timeouts, max_send_retries being positive, and the
\* peer of the first is no longer in progress.
C38_Witness ==
    \E p, q \in Peers :
        /\ config.max_send_retries > 0
        /\ sess[p].pc = "none" /\ sess[p].err = "MaxSendRetriesReached"
        /\ p \notin reqs_in_progress
        /\ \A i \in 1..Len(wire[p]) : wire[p][i].dir = "tx"
        /\ sess[q].kind = "WRQ" /\ sess[q].pc = "send_error"
        /\ sess[q].err = "MaxSendRetriesReached"
        /\ sess[q].attempt = sess[q].max_send_retries
        /\ \A i \in 1..Len(wire[q]) : wire[q][i].dir = "tx"


----------------------------------------------------------------------------
(* recv_ack on its own: every window, at the wrap of the block ids too *)

MaxWindow == 3         \* longest window of recv_ack, next to the one of 65535 blocks

AckBases == {0, 1, 2, 32768, U16 - 3, U16 - 2, U16 - 1}

AckWindowLens == (1..MaxWindow) \cup {U16 - 1}

\* The ids around both ends of the window, and the ends of the id space.
AckIdsAround(window_base, window_len) ==
    {wrapping_add(window_base, (U16 + k) % U16) : k \in -2..1}
        \cup {wrapping_add(window_base, (window_len + k) % U16) : k \in -2..1}
        \cup {0, U16 - 1}

AckCall(b, w, a) ==
    [op |-> "call", window_base |-> b, window_len |-> w, recved_block_id |-> a,
     accept |-> FALSE, blocks_acked |-> 0, wrapped |-> FALSE,
     next_base |-> b, next_len |-> w, panicked |-> FALSE]

AckCalls ==
    UNION {{AckCall(b, w, a) : a \in AckIdsAround(b, w)} :
              b \in AckBases, w \in AckWindowLens}

InitRecvAck ==
    /\ config \in {c \in BuilderConfigs : c.max_send_retries = 0}
    /\ reqs_in_progress = {}
    /\ serve_state = "running"
    /\ handler_lock = NoPeer
    /\ sess = [p \in Peers |-> IdleSession]
    /\ futs = [p \in Peers |-> 0]
    /\ wire = [p \in Peers |-> <<>>]
    /\ last_req = NoReq
    /\ tracing = TRUE
    /\ codec = NoDatagram
    /\ dir_req = NoOpen(DirHandler_new("ReadWrite"))
    /\ recv_req_futs = 1
    /\ ack_call \in AckCalls

\* recv_ack decodes ACK(recved_block_id) of the session's peer.
CallRecvAck ==
    /\ ack_call.op = "call"
    /\ LET r == recv_ack(ack_call.window_base, ack_call.window_len, ack_call.recved_block_id)
       IN  ack_call' = [ack_call EXCEPT !.op = IF r.accept THEN "acked" ELSE "discarded",
                                        !.accept = r.accept,
                                        !.blocks_acked = r.n,
                                        !.wrapped = r.wrapped]
    /\ UNCHANGED <<config, reqs_in_progress, serve_state, handler_lock, sess, futs, wire,
                   last_req, tracing, codec, dir_req, recv_req_futs>>

\* try_handle moves the window base and removes the acknowledged blocks.
DrainWindow ==
    /\ ack_call.op = "acked"
    /\ ack_call' =
          [ack_call EXCEPT
              !.op = "drained",
              !.next_base = wrapping_add(ack_call.window_base, ack_call.blocks_acked),
              !.next_len = IF ack_call.blocks_acked > ack_call.window_len
                           THEN ack_call.window_len
                           ELSE ack_call.window_len - ack_call.blocks_acked,
              !.panicked = ack_call.blocks_acked > ack_call.window_len]
    /\ UNCHANGED <<config, reqs_in_progress, serve_state, handler_lock, sess, futs, wire,
                   last_req, tracing, codec, dir_req, recv_req_futs>>

NextRecvAck == CallRecvAck \/ DrainWindow

SpecRecvAck == InitRecvAck /\ [][NextRecvAck]_vars

\* How many ids after window_base the id is, counting through the wrap.
IdOffset(window_base, id) == (id - window_base + U16) % U16

\* C39: for every window base b, window length w >= 1 and ACK id a, recv_ack
\* accepts a exactly when it is one of the w ids that start at b, counting
\* through the wrap from 65535 to 0; the number of blocks it then reports is
\* ((a - b) mod 2^16) + 1, lies in 1..w and is computed without leaving the u16
\* range; and try_handle then moves the base by that many ids, not past the end
\* of the window, and removes no more blocks than the window holds.
C39_BlocksAckedWithinWindow ==
    LET b == ack_call.window_base
        w == ack_call.window_len
        a == ack_call.recved_block_id
    IN  /\ ack_call.op # "call" =>
              /\ ack_call.accept <=> IdOffset(b, a) < w
              /\ ack_call.accept =>
                    /\ ack_call.blocks_acked = IdOffset(b, a) + 1
                    /\ ack_call.blocks_acked \in 1..w
                    /\ ~ack_call.wrapped
        /\ ack_call.op = "drained" =>
              /\ ~ack_call.panicked
              /\ ack_call.next_base = wrapping_add(a, 1)
              /\ IdOffset(b, ack_call.next_base) <= w
              /\ ack_call.next_len = w - ack_call.blocks_acked
              /\ ack_call.next_len >= 0

\* The window of blocks 65535, 0 and 1: ACK(0) acknowledged two blocks and left
\* block 1 in the window.
C39_Witness ==
    /\ ack_call.op = "drained"
    /\ ack_call.window_base = U16 - 1 /\ ack_call.window_len = 3
    /\ ack_call.recved_block_id = 0
    /\ ack_call.blocks_acked = 2
    /\ ack_call.next_base = 1 /\ ack_call.next_len = 1

\* ACK(1) for the window of blocks 65534, 65535 and 0 was discarded.
C39_WitnessDiscarded ==
    /\ ack_call.op = "discarded"
    /\ ack_call.window_base = U16 - 2 /\ ack_call.window_len = 3
    /\ ack_call.recved_block_id = 1


----------------------------------------------------------------------------
(* The negotiated window size *)

\* C40 (as claimed): the negotiated window size of a read session is at least
\* 1, and the window that send_window is called with for DATA, and waits for
\* the acknowledgement of, holds at least one block.
C40_WindowSizeAtLeastOne ==
    \A p \in Peers :
        RrqRunning(p) =>
            /\ sess[p].window_size >= 1
            /\ sess[p].pc \in {"send", "recv"} => sess[p].window # <<>>

============================================================================
